---- MODULE Spec2Model ----
(***************************************************************************)
(* A-Maze-ing: the MazeGenerator of src/mazegen/generator.py (construction *)
(* and validation, the "42" pattern guard, the depth-first and Prim        *)
(* carving generators, dead-end braiding, the shortest-path generator) and *)
(* the Cell wall model of src/mazegen/models.py.                           *)
(*                                                                         *)
(* Coordinates are <<x, y>>.  A cell is [walls |-> 0..15, vis |-> BOOLEAN];*)
(* the grid self.maze is a function from coordinates to cells, or <<>>     *)
(* while it is the empty list.  A step of a generator function (dfs_steps, *)
(* prim_steps, find_shortest_path_steps) is one next() on it: the code     *)
(* from one yield to the following yield, or to the generator's return.    *)
(*                                                                         *)
(* The module-level random generator (from random import seed, randint) is *)
(* one variable shared by every instance.  Its algorithm belongs to the    *)
(* Python runtime, not to the repository; it is modelled as a state that   *)
(* seed() sets from its argument alone and that every randint() advances   *)
(* deterministically.                                                      *)
(***************************************************************************)
EXTENDS Integers, Sequences, FiniteSets, TLC

\* ------------------------------------------------------------- bounds
\* Largest width and height offered to the constructor.
MaxDim == 9
\* Largest seed value offered to the constructor.
MaxSeed == 2

\* ------------------------------------------------------------- Cell
NORTH == 1
EAST == 2
SOUTH == 4
WEST == 8
\* Cell.__init__: every wall present.
AllWalls == 15

NoDirection == -1

\* Cell.has_*_wall: bool(self._walls & wall), wall a single bit.
HasWall(walls, wall) == (walls \div wall) % 2 = 1

\* Cell.remove_*_wall: self._walls &= ~wall.
ClearWall(walls, wall) == IF HasWall(walls, wall) THEN walls - wall ELSE walls

\* Cell(): four walls, not visited.
NewCell == [walls |-> AllWalls, vis |-> FALSE]

\* MazeGenerator._wall_count.
WallCount(cell) ==
    Cardinality({d \in {NORTH, EAST, SOUTH, WEST} : HasWall(cell.walls, d)})

\* MazeGenerator.DIRECTIONS, in the order of the list.
DIRECTIONS ==
    << [wall |-> NORTH, dx |-> 0, dy |-> -1, op_wall |-> SOUTH],
       [wall |-> EAST, dx |-> 1, dy |-> 0, op_wall |-> WEST],
       [wall |-> SOUTH, dx |-> 0, dy |-> 1, op_wall |-> NORTH],
       [wall |-> WEST, dx |-> -1, dy |-> 0, op_wall |-> EAST] >>

\* ------------------------------------------------------------- helpers
Range(s) == {s[k] : k \in 1..Len(s)}

Coords(w, h) == {<<x, y>> : x \in 0..(w - 1), y \in 0..(h - 1)}

\* ------------------------------------------------------------- random
\* seed(a): the generator's state becomes a function of a alone.
SeedRng(a) == a % 65536

\* One advance of the generator's state.
NextRng(r) == (25173 * r + 13849) % 65536

\* randint(0, n - 1) for n >= 1: the value drawn and the state left behind.
RandIndex(r, n) == [val |-> (NextRng(r) \div 256) % n, rng |-> NextRng(r)]

\* ------------------------------------------------------------- construction
\* A seed argument: None, or an integer.
NoneSeed == [val |-> 0, isNone |-> TRUE]
IntSeed(v) == [val |-> v, isNone |-> FALSE]

\* An output_file argument: a string, or a value of another type.
StrArg(v) == [val |-> v, isStr |-> TRUE]
NotStr == [val |-> "", isStr |-> FALSE]

\* Python truth value of the seed argument (None and 0 are false).
SeedTruthy(s) == ~s.isNone /\ s.val # 0

\* _validate_inputs for integer dimensions, integer coordinate pairs and a
\* boolean perfect flag: the message of the first check that raises, or "ok".
ValidateInputs(w, h, e, x, s, o) ==
    IF w <= 0 \/ h <= 0
    THEN "ValueError: Width and height must be greater than 0!"
    ELSE IF w < 3 \/ h < 3
    THEN "ValueError: A valid maze must be at least 3x3!"
    ELSE IF ~(0 <= e[1] /\ e[1] < w /\ 0 <= e[2] /\ e[2] < h)
    THEN "ValueError: entry is out of maze dimentions!"
    ELSE IF ~(0 <= x[1] /\ x[1] < w /\ 0 <= x[2] /\ x[2] < h)
    THEN "ValueError: maze_exit is out of maze dimentions!"
    ELSE IF e = x
    THEN "ValueError: Entry and exit should be different cells"
    ELSE IF SeedTruthy(s) /\ s.val < 0
    THEN "ValueError: Seed value must be greater than 0!"
    ELSE IF ~o.isStr
    THEN "TypeError: Output file name must be a string!"
    ELSE "ok"

\* __init__, self.seed = seed if seed else self.seed: a false seed reads
\* self.seed, an attribute neither the instance nor the class has yet.
SeedAttribute(s) ==
    IF SeedTruthy(s)
    THEN [val |-> s.val, ok |-> TRUE]
    ELSE [val |-> 0, ok |-> FALSE]

\* The guard of the pattern with >= for >.
PatternFitsFromEight(w, h) == w >= 8 /\ h >= 8

\* _generate_pattern_42: the guard of the pattern.
PatternFits(w, h) == w > 8 /\ h > 8

\* The list of protected coordinates with the anchor one column to the right.
Pattern42Shifted(w, h) ==
    LET px == (w - 5) \div 2
        py == (h - 4) \div 2
    IN  << <<px, py>>, <<px, py + 1>>, <<px, py + 2>>,
           <<px + 1, py + 2>>, <<px + 2, py + 2>>, <<px + 2, py + 3>>,
           <<px + 2, py + 4>>, <<px + 4, py>>, <<px + 4, py + 2>>,
           <<px + 4, py + 3>>, <<px + 4, py + 4>>, <<px + 5, py>>,
           <<px + 5, py + 2>>, <<px + 5, py + 4>>, <<px + 6, py>>,
           <<px + 6, py + 1>>, <<px + 6, py + 2>>, <<px + 6, py + 4>> >>

\* _generate_pattern_42: the list of protected coordinates.
Pattern42(w, h) ==
    LET px == (w - 7) \div 2
        py == (h - 5) \div 2
    IN  << <<px, py>>, <<px, py + 1>>, <<px, py + 2>>,
           <<px + 1, py + 2>>, <<px + 2, py + 2>>, <<px + 2, py + 3>>,
           <<px + 2, py + 4>>, <<px + 4, py>>, <<px + 4, py + 2>>,
           <<px + 4, py + 3>>, <<px + 4, py + 4>>, <<px + 5, py>>,
           <<px + 5, py + 2>>, <<px + 5, py + 4>>, <<px + 6, py>>,
           <<px + 6, py + 1>>, <<px + 6, py + 2>>, <<px + 6, py + 4>> >>

\* _generate_pattern_42 without the test of the exit.
GeneratePattern42EntryOnly(w, h, e, x) ==
    IF ~PatternFits(w, h)
    THEN "ValueError: Cannot generate 42 pattern, maze too small!"
    ELSE IF e \in Range(Pattern42(w, h))
    THEN "ValueError: Entry point is inside 42 pattern!"
    ELSE "ok"

\* _generate_pattern_42: the message of the check that raises, or "ok".
GeneratePattern42(w, h, e, x) ==
    IF ~PatternFits(w, h)
    THEN "ValueError: Cannot generate 42 pattern, maze too small!"
    ELSE IF e \in Range(Pattern42(w, h))
    THEN "ValueError: Entry point is inside 42 pattern!"
    ELSE IF x \in Range(Pattern42(w, h))
    THEN "ValueError: Exit point is inside 42 pattern!"
    ELSE "ok"

\* __init__ as a whole: the message of the first statement that raises, or
\* "ok".  Validation, then the seed assignment, then the pattern.
InitResult(w, h, e, x, s, o) ==
    IF ValidateInputs(w, h, e, x, s, o) # "ok"
    THEN ValidateInputs(w, h, e, x, s, o)
    ELSE IF ~SeedAttribute(s).ok
    THEN "AttributeError: 'MazeGenerator' object has no attribute 'seed'"
    ELSE GeneratePattern42(w, h, e, x)

\* ------------------------------------------------------------- state
\* The generator instances of one process.
Inst == {1, 2}

VARIABLES
    gen,      \* gen[i]: the MazeGenerator instance i and its attributes
    call,     \* call[i]: the arguments of the constructor call that made i
    carve,    \* carve[i]: the frame of i's dfs_steps / prim_steps generator
    search,   \* search[i]: the frame of i's find_shortest_path_steps generator
    events,   \* events[i]: the events the current carving run has yielded
    rng,      \* the state of the random module's shared generator
    files     \* files[name]: the text of the file of that name, once written

vars == <<gen, call, carve, search, events, rng, files>>

\* No constructor call yet.
NoGen ==
    [status |-> "none", err |-> "", width |-> 0, height |-> 0,
     entry |-> <<0, 0>>, maze_exit |-> <<0, 0>>, seed |-> 0,
     output_file |-> "", perfect |-> TRUE, pattern_42 |-> <<>>,
     maze |-> <<>>, path |-> <<>>]

NoCall ==
    [width |-> 0, height |-> 0, entry |-> <<0, 0>>, maze_exit |-> <<0, 0>>,
     seed |-> NoneSeed, output_file |-> StrArg(""), perfect |-> TRUE]

\* No generator object: pc is "idle".  A carving generator is suspended at
\* its first yield ("sentinel") or at a wall-removal yield ("yielded"), or
\* has returned ("done").
NoCarve ==
    [pc |-> "idle", algo |-> "none", stack |-> <<>>, frontier |-> <<>>,
     pending |-> <<0, 0>>]

NoEntry == [cell |-> <<0, 0>>, path |-> <<>>, cost |-> 0]

NoSearch == [pc |-> "idle", pq |-> {}, distance |-> <<>>, cur |-> NoEntry]

\* The arguments offered to the constructor.
Dims == {0, 2, 3, 8} \cup (9..MaxDim)
EntryPts == {<<0, 0>>, <<4, 3>>, <<1, 2>>, <<-1, 0>>}
ExitPts == {<<2, 2>>, <<8, 8>>, <<0, 0>>, <<9, 9>>, <<5, 4>>}
SeedArgs == {NoneSeed} \cup {IntSeed(v) : v \in (-1)..MaxSeed}
OutputArgs == {StrArg("maze.txt"), StrArg(""), NotStr}

\* The state the interpreter may have left the shared generator in.
InitRngs == {0, 1}

Init ==
    /\ gen = [i \in Inst |-> NoGen]
    /\ call = [i \in Inst |-> NoCall]
    /\ carve = [i \in Inst |-> NoCarve]
    /\ search = [i \in Inst |-> NoSearch]
    /\ events = [i \in Inst |-> <<>>]
    /\ rng \in InitRngs
    /\ files = <<>>

\* MazeGenerator(w, h, e, x, o, p, s): instance i exists afterwards only when
\* __init__ raised nothing.
Construct(i, w, h, e, x, s, p, o) ==
    /\ gen[i].status = "none"
    /\ call' = [call EXCEPT ![i] =
                   [width |-> w, height |-> h, entry |-> e, maze_exit |-> x,
                    seed |-> s, output_file |-> o, perfect |-> p]]
    /\ gen' = [gen EXCEPT ![i] =
                  IF InitResult(w, h, e, x, s, o) = "ok"
                  THEN [status |-> "live", err |-> "", width |-> w,
                        height |-> h, entry |-> e, maze_exit |-> x,
                        seed |-> SeedAttribute(s).val,
                        output_file |-> o.val, perfect |-> p,
                        pattern_42 |-> Pattern42(w, h), maze |-> <<>>,
                        path |-> <<>>]
                  ELSE [NoGen EXCEPT !.status = "failed",
                                     !.err = InitResult(w, h, e, x, s, o)]]
    /\ UNCHANGED <<carve, search, events, rng, files>>

\* ------------------------------------------------------------- grid
\* A grid allocated only when the instance holds none.
GenerateGridKeep(g) ==
    IF g.maze # <<>> THEN g.maze ELSE [c \in Coords(g.width, g.height) |-> NewCell]

\* _generate_grid.
GenerateGrid(g) == [c \in Coords(g.width, g.height) |-> NewCell]

\* _is_not_42_pattern without the comparison against the pattern.
IsNot42PatternAlways(g, x, y) == TRUE

\* _is_not_42_pattern.
IsNot42Pattern(g, x, y) ==
    \A k \in 1..Len(g.pattern_42) : <<x, y>> # g.pattern_42[k]

\* _in_maze_bounds.
InMazeBounds(g, x, y) ==
    /\ 0 <= x /\ x < g.width
    /\ 0 <= y /\ y < g.height
    /\ IsNot42Pattern(g, x, y)

\* _remove_wall on the cell at c.
RemoveWall(mz, c, wall) == [mz EXCEPT ![c].walls = ClearWall(@, wall)]

\* The cell a direction leads to from c.
Toward(c, d) == <<c[1] + d.dx, c[2] + d.dy>>

\* The removal on the side of c alone.
CarveOneSide(mz, c, d) == RemoveWall(mz, c, d.wall)

\* The pair of removals with the neighbour's wall taken on the same side as
\* the cell's.
CarveSameSide(mz, c, d) == RemoveWall(RemoveWall(mz, c, d.wall), Toward(c, d), d.wall)

\* The pair of removals that opens the passage from c in direction d
\* (dfs_steps 351-352, prim_steps 408-409, braid_dead_ends 311-312).
Carve(mz, c, d) == RemoveWall(RemoveWall(mz, c, d.wall), Toward(c, d), d.op_wall)

\* ------------------------------------------------------------- braiding
\* braid_dead_ends, the body of the two loops for the k-th interior cell in
\* row-major order and every later one: a non-protected cell with three
\* walls is opened toward one of its in-bounds non-protected neighbours.
RECURSIVE BraidFrom(_, _, _, _)
\* The braiding loops run over every cell of the grid, the outer ring included.
BraidFromEveryCell(g, mz, r, k) ==
    IF k >= g.width * g.height
    THEN [maze |-> mz, rng |-> r]
    ELSE LET c == <<k % g.width, k \div g.width>>
             inb(d) == InMazeBounds(g, c[1] + d.dx, c[2] + d.dy)
             neighbors == SelectSeq(DIRECTIONS, inb)
             pick == RandIndex(r, Len(neighbors))
         IN  IF ~IsNot42Pattern(g, c[1], c[2])
             THEN BraidFrom(g, mz, r, k + 1)
             ELSE IF WallCount(mz[c]) = 3 /\ neighbors # <<>>
             THEN BraidFrom(g, Carve(mz, c, neighbors[pick.val + 1]),
                            pick.rng, k + 1)
             ELSE BraidFrom(g, mz, r, k + 1)

BraidFrom(g, mz, r, k) ==
    IF k >= (g.width - 2) * (g.height - 2)
    THEN [maze |-> mz, rng |-> r]
    ELSE LET c == <<1 + (k % (g.width - 2)), 1 + (k \div (g.width - 2))>>
             inb(d) == InMazeBounds(g, c[1] + d.dx, c[2] + d.dy)
             neighbors == SelectSeq(DIRECTIONS, inb)
             pick == RandIndex(r, Len(neighbors))
         IN  IF ~IsNot42Pattern(g, c[1], c[2])
             THEN BraidFrom(g, mz, r, k + 1)
             ELSE IF WallCount(mz[c]) = 3 /\ neighbors # <<>>
             THEN BraidFrom(g, Carve(mz, c, neighbors[pick.val + 1]),
                            pick.rng, k + 1)
             ELSE BraidFrom(g, mz, r, k + 1)

\* braid_dead_ends: reseeds, then one pass over the interior cells.
BraidDeadEnds(g, mz) == BraidFrom(g, mz, SeedRng(g.seed), 0)

\* The end of a carving run that braids when the flag is set.
FinishBraidsPerfect(g, mz, r) ==
    IF g.perfect THEN BraidDeadEnds(g, mz) ELSE [maze |-> mz, rng |-> r]

\* The end of dfs_steps and prim_steps: braid unless perfect.
Finish(g, mz, r) ==
    IF ~g.perfect THEN BraidDeadEnds(g, mz) ELSE [maze |-> mz, rng |-> r]

\* ------------------------------------------------------------- dfs
\* dfs_steps 334-341: the directions from c that lead to an in-bounds,
\* non-protected, unvisited cell.
DfsNeighbors(g, mz, c) ==
    LET open(d) == /\ InMazeBounds(g, c[1] + d.dx, c[2] + d.dy)
                   /\ ~mz[Toward(c, d)].vis
    IN  SelectSeq(DIRECTIONS, open)

\* The while loop of dfs_steps leaving at the first cell without an
\* unvisited neighbour (break for pop and continue).
DfsLoopBreak(g, mz, stack, r) ==
    LET c == stack[Len(stack)]
        neighbors == DfsNeighbors(g, mz, c)
        pick == RandIndex(r, Len(neighbors))
        d == neighbors[pick.val + 1]
    IN  IF stack = <<>> \/ neighbors = <<>>
        THEN [yielded |-> FALSE, maze |-> mz, stack |-> <<>>, rng |-> r,
              pending |-> <<0, 0>>, event |-> [cell |-> <<0, 0>>, wall |-> NoDirection]]
        ELSE [yielded |-> TRUE, maze |-> Carve(mz, c, d), stack |-> stack,
              rng |-> pick.rng, pending |-> Toward(c, d),
              event |-> [cell |-> c, wall |-> d.wall]]

\* dfs_steps 330-354: the while loop from its head to the next yield
\* (yielded, with the event and the neighbour still to be marked) or to the
\* empty stack.
RECURSIVE DfsLoop(_, _, _, _)
\* The while loop of dfs_steps yielding the cell stepped into in place of the
\* cell stepped from.
DfsLoopYieldsNeighbor(g, mz, stack, r) ==
    IF stack = <<>>
    THEN [yielded |-> FALSE, maze |-> mz, stack |-> stack, rng |-> r,
          pending |-> <<0, 0>>, event |-> [cell |-> <<0, 0>>, wall |-> NoDirection]]
    ELSE LET c == stack[Len(stack)]
             neighbors == DfsNeighbors(g, mz, c)
             pick == RandIndex(r, Len(neighbors))
             d == neighbors[pick.val + 1]
         IN  IF neighbors = <<>>
             THEN DfsLoop(g, mz, SubSeq(stack, 1, Len(stack) - 1), r)
             ELSE [yielded |-> TRUE, maze |-> Carve(mz, c, d), stack |-> stack,
                   rng |-> pick.rng, pending |-> Toward(c, d),
                   event |-> [cell |-> Toward(c, d), wall |-> d.wall]]

DfsLoop(g, mz, stack, r) ==
    IF stack = <<>>
    THEN [yielded |-> FALSE, maze |-> mz, stack |-> stack, rng |-> r,
          pending |-> <<0, 0>>, event |-> [cell |-> <<0, 0>>, wall |-> NoDirection]]
    ELSE LET c == stack[Len(stack)]
             neighbors == DfsNeighbors(g, mz, c)
             pick == RandIndex(r, Len(neighbors))
             d == neighbors[pick.val + 1]
         IN  IF neighbors = <<>>
             THEN DfsLoop(g, mz, SubSeq(stack, 1, Len(stack) - 1), r)
             ELSE [yielded |-> TRUE, maze |-> Carve(mz, c, d), stack |-> stack,
                   rng |-> pick.rng, pending |-> Toward(c, d),
                   event |-> [cell |-> c, wall |-> d.wall]]

\* The resumption of dfs_steps with the neighbour pushed twice.
DfsResumePushesTwice(g, fr) ==
    IF fr.pc = "sentinel"
    THEN [maze |-> [g.maze EXCEPT ![g.entry].vis = TRUE], stack |-> <<g.entry>>]
    ELSE [maze |-> [g.maze EXCEPT ![fr.pending].vis = TRUE],
          stack |-> Append(Append(fr.stack, fr.pending), fr.pending)]

\* dfs_steps 355-356 (after a wall-removal yield) or 326-328 (after the
\* sentinel): the grid and the stack the while loop is entered with.
DfsResume(g, fr) ==
    IF fr.pc = "sentinel"
    THEN [maze |-> [g.maze EXCEPT ![g.entry].vis = TRUE], stack |-> <<g.entry>>]
    ELSE [maze |-> [g.maze EXCEPT ![fr.pending].vis = TRUE],
          stack |-> Append(fr.stack, fr.pending)]

\* The first next() on dfs_steps() without seed(self.seed).
DfsStartNoReseed(i) ==
    /\ gen[i].status = "live"
    /\ rng' = rng
    /\ gen' = [gen EXCEPT ![i].maze = GenerateGrid(gen[i])]
    /\ carve' = [carve EXCEPT ![i] = [NoCarve EXCEPT !.pc = "sentinel", !.algo = "dfs"]]
    /\ events' = [events EXCEPT ![i] = <<[cell |-> gen[i].entry, wall |-> NoDirection]>>]
    /\ UNCHANGED <<call, search, files>>

\* First next() on dfs_steps(): reseed, fresh grid, the sentinel event.
DfsStart(i) ==
    /\ gen[i].status = "live"
    /\ rng' = SeedRng(gen[i].seed)
    /\ gen' = [gen EXCEPT ![i].maze = GenerateGrid(gen[i])]
    /\ carve' = [carve EXCEPT ![i] = [NoCarve EXCEPT !.pc = "sentinel", !.algo = "dfs"]]
    /\ events' = [events EXCEPT ![i] = <<[cell |-> gen[i].entry, wall |-> NoDirection]>>]
    /\ UNCHANGED <<call, search, files>>

\* A later next() on dfs_steps(): up to the next yield, or to the return
\* (braiding included).
DfsStep(i) ==
    /\ carve[i].algo = "dfs"
    /\ carve[i].pc \in {"sentinel", "yielded"}
    /\ LET g == gen[i]
           at == DfsResume(g, carve[i])
           res == DfsLoop(g, at.maze, at.stack, rng)
           fin == Finish(g, res.maze, res.rng)
       IN  IF res.yielded
           THEN /\ gen' = [gen EXCEPT ![i].maze = res.maze]
                /\ carve' = [carve EXCEPT ![i].pc = "yielded",
                                          ![i].stack = res.stack,
                                          ![i].pending = res.pending]
                /\ events' = [events EXCEPT ![i] = Append(@, res.event)]
                /\ rng' = res.rng
           ELSE /\ gen' = [gen EXCEPT ![i].maze = fin.maze]
                /\ carve' = [carve EXCEPT ![i].pc = "done", ![i].stack = <<>>]
                /\ events' = events
                /\ rng' = fin.rng
    /\ UNCHANGED <<call, search, files>>

\* ------------------------------------------------------------- prim
\* add_to_frontier looking north and east only.
AddToFrontierNorthEast(g, mz, c) ==
    LET open(d) == /\ InMazeBounds(g, c[1] + d.dx, c[2] + d.dy)
                   /\ ~mz[Toward(c, d)].vis
        dirs == SelectSeq(SubSeq(DIRECTIONS, 1, 2), open)
    IN  [k \in 1..Len(dirs) |-> [from |-> c, dir |-> dirs[k]]]

\* prim_steps, add_to_frontier(x, y): the edges from c to its in-bounds,
\* non-protected, unvisited neighbours, in the order of DIRECTIONS.
AddToFrontier(g, mz, c) ==
    LET open(d) == /\ InMazeBounds(g, c[1] + d.dx, c[2] + d.dy)
                   /\ ~mz[Toward(c, d)].vis
        dirs == SelectSeq(DIRECTIONS, open)
    IN  [k \in 1..Len(dirs) |-> [from |-> c, dir |-> dirs[k]]]

\* list.pop(): the list without its last element, whatever idx.
PopLast(list, idx) == SubSeq(list, 1, Len(list) - 1)

\* list.pop(idx), idx counted from 0: the list without that element.
PopAt(list, idx) ==
    SubSeq(list, 1, idx) \o SubSeq(list, idx + 2, Len(list))

\* prim_steps without the visited test on the edge drawn.
PrimAcceptsAll(mz, e) == TRUE

\* prim_steps 407: whether the edge drawn from the frontier is carved.
PrimAccepts(mz, e) == ~mz[Toward(e.from, e.dir)].vis

\* prim_steps 403-414: the while loop from its head to the next yield or to
\* the empty frontier.
RECURSIVE PrimLoop(_, _, _, _)
\* The while loop of prim_steps removing the wall pair of a discarded edge
\* too.
PrimLoopCarvesDiscarded(g, mz, frontier, r) ==
    IF frontier = <<>>
    THEN [yielded |-> FALSE, maze |-> mz, frontier |-> frontier, rng |-> r,
          event |-> [cell |-> <<0, 0>>, wall |-> NoDirection]]
    ELSE LET pick == RandIndex(r, Len(frontier))
             e == frontier[pick.val + 1]
             rest == PopAt(frontier, pick.val)
             to == Toward(e.from, e.dir)
             carved == [Carve(mz, e.from, e.dir) EXCEPT ![to].vis = TRUE]
         IN  IF PrimAccepts(mz, e)
             THEN [yielded |-> TRUE, maze |-> carved,
                   frontier |-> rest \o AddToFrontier(g, carved, to),
                   rng |-> pick.rng,
                   event |-> [cell |-> e.from, wall |-> e.dir.wall]]
             ELSE PrimLoop(g, Carve(mz, e.from, e.dir), rest, pick.rng)

PrimLoop(g, mz, frontier, r) ==
    IF frontier = <<>>
    THEN [yielded |-> FALSE, maze |-> mz, frontier |-> frontier, rng |-> r,
          event |-> [cell |-> <<0, 0>>, wall |-> NoDirection]]
    ELSE LET pick == RandIndex(r, Len(frontier))
             e == frontier[pick.val + 1]
             rest == PopAt(frontier, pick.val)
             to == Toward(e.from, e.dir)
             carved == [Carve(mz, e.from, e.dir) EXCEPT ![to].vis = TRUE]
         IN  IF PrimAccepts(mz, e)
             THEN [yielded |-> TRUE, maze |-> carved,
                   frontier |-> rest \o AddToFrontier(g, carved, to),
                   rng |-> pick.rng,
                   event |-> [cell |-> e.from, wall |-> e.dir.wall]]
             ELSE PrimLoop(g, mz, rest, pick.rng)

\* prim_steps 389-401 (after the sentinel): entry visited, its edges in the
\* frontier; after a wall-removal yield the loop goes on as it stands.
PrimResume(g, fr) ==
    IF fr.pc = "sentinel"
    THEN LET mz == [g.maze EXCEPT ![g.entry].vis = TRUE]
         IN  [maze |-> mz, frontier |-> AddToFrontier(g, mz, g.entry)]
    ELSE [maze |-> g.maze, frontier |-> fr.frontier]

\* First next() on prim_steps(): fresh grid, reseed, the sentinel event.
PrimStart(i) ==
    /\ gen[i].status = "live"
    /\ gen' = [gen EXCEPT ![i].maze = GenerateGrid(gen[i])]
    /\ rng' = SeedRng(gen[i].seed)
    /\ carve' = [carve EXCEPT ![i] = [NoCarve EXCEPT !.pc = "sentinel", !.algo = "prim"]]
    /\ events' = [events EXCEPT ![i] = <<[cell |-> gen[i].entry, wall |-> NoDirection]>>]
    /\ UNCHANGED <<call, search, files>>

\* A later next() on prim_steps(): up to the next yield, or to the return
\* (braiding included).
PrimStep(i) ==
    /\ carve[i].algo = "prim"
    /\ carve[i].pc \in {"sentinel", "yielded"}
    /\ LET g == gen[i]
           at == PrimResume(g, carve[i])
           res == PrimLoop(g, at.maze, at.frontier, rng)
           fin == Finish(g, res.maze, res.rng)
       IN  IF res.yielded
           THEN /\ gen' = [gen EXCEPT ![i].maze = res.maze]
                /\ carve' = [carve EXCEPT ![i].pc = "yielded",
                                          ![i].frontier = res.frontier]
                /\ events' = [events EXCEPT ![i] = Append(@, res.event)]
                /\ rng' = res.rng
           ELSE /\ gen' = [gen EXCEPT ![i].maze = fin.maze]
                /\ carve' = [carve EXCEPT ![i].pc = "done", ![i].frontier = <<>>]
                /\ events' = events
                /\ rng' = fin.rng
    /\ UNCHANGED <<call, search, files>>

\* ------------------------------------------------------------- path
\* Python's order on tuples of integers.
CoordLess(a, b) == a[1] < b[1] \/ (a[1] = b[1] /\ a[2] < b[2])

\* Python's order on lists of coordinates.
RECURSIVE ListLess(_, _)
ListLess(p, q) ==
    IF q = <<>> THEN FALSE
    ELSE IF p = <<>> THEN TRUE
    ELSE IF p[1] # q[1] THEN CoordLess(p[1], q[1])
    ELSE ListLess(Tail(p), Tail(q))

\* Python's order on the queue entries (cost, coordinate, path).
EntryLess(a, b) ==
    \/ a.cost < b.cost
    \/ a.cost = b.cost /\ CoordLess(a.cell, b.cell)
    \/ a.cost = b.cost /\ a.cell = b.cell /\ ListLess(a.path, b.path)

\* A pop of the greatest entry of the queue.
HeapMax(pq) == CHOOSE a \in pq : \A b \in pq \ {a} : EntryLess(b, a)

\* heappop with the coordinates compared y first.
HeapMinYFirst(pq) ==
    CHOOSE a \in pq : \A b \in pq \ {a} :
        \/ a.cost < b.cost
        \/ a.cost = b.cost /\ a.cell[2] < b.cell[2]
        \/ a.cost = b.cost /\ a.cell[2] = b.cell[2] /\ a.cell[1] <= b.cell[1]

\* heapq.heappop: the least entry of the queue.  The queue is a set: the
\* search never pushes an entry twice, a push needing a cost strictly below
\* the recorded one.
HeapMin(pq) == CHOOSE a \in pq : \A b \in pq \ {a} : EntryLess(a, b)

\* distance.get(c, float('inf')) < . is modelled by its two uses.
Known(distance, c) == c \in DOMAIN distance

\* find_shortest_path_steps 468-480 for the directions k..4 of the cell of
\* cur: what the queue and the distance map become.
RECURSIVE Relax(_, _, _, _, _)
\* The expansion of cur that steps through walls.
RelaxThroughWalls(g, cur, pq, distance, k) ==
    IF k > Len(DIRECTIONS)
    THEN [pq |-> pq, distance |-> distance]
    ELSE LET d == DIRECTIONS[k]
             n == Toward(cur.cell, d)
             new_cost == cur.cost + 1
         IN  IF /\ 0 <= n[1] /\ n[1] < g.width
                /\ 0 <= n[2] /\ n[2] < g.height
                /\ (~Known(distance, n) \/ new_cost < distance[n])
             THEN Relax(g, cur,
                        pq \cup {[cell |-> n, path |-> Append(cur.path, n),
                                  cost |-> new_cost]},
                        (n :> new_cost) @@ distance, k + 1)
             ELSE Relax(g, cur, pq, distance, k + 1)

\* The expansion of cur that pushes the path of cur as the neighbour's path.
RelaxDropsCell(g, cur, pq, distance, k) ==
    IF k > Len(DIRECTIONS)
    THEN [pq |-> pq, distance |-> distance]
    ELSE LET d == DIRECTIONS[k]
             n == Toward(cur.cell, d)
             has_wall == HasWall(g.maze[cur.cell].walls, d.wall)
             new_cost == cur.cost + 1
         IN  IF /\ 0 <= n[1] /\ n[1] < g.width
                /\ 0 <= n[2] /\ n[2] < g.height
                /\ ~has_wall
                /\ (~Known(distance, n) \/ new_cost < distance[n])
             THEN Relax(g, cur,
                        pq \cup {[cell |-> n, path |-> cur.path,
                                  cost |-> new_cost]},
                        (n :> new_cost) @@ distance, k + 1)
             ELSE Relax(g, cur, pq, distance, k + 1)

\* The expansion of cur that also pushes a neighbour reached at the cost
\* already recorded for it.
RelaxReopensEqual(g, cur, pq, distance, k) ==
    IF k > Len(DIRECTIONS)
    THEN [pq |-> pq, distance |-> distance]
    ELSE LET d == DIRECTIONS[k]
             n == Toward(cur.cell, d)
             has_wall == HasWall(g.maze[cur.cell].walls, d.wall)
             new_cost == cur.cost + 1
         IN  IF /\ 0 <= n[1] /\ n[1] < g.width
                /\ 0 <= n[2] /\ n[2] < g.height
                /\ ~has_wall
                /\ (~Known(distance, n) \/ new_cost <= distance[n])
             THEN Relax(g, cur,
                        pq \cup {[cell |-> n, path |-> Append(cur.path, n),
                                  cost |-> new_cost]},
                        (n :> new_cost) @@ distance, k + 1)
             ELSE Relax(g, cur, pq, distance, k + 1)

Relax(g, cur, pq, distance, k) ==
    IF k > Len(DIRECTIONS)
    THEN [pq |-> pq, distance |-> distance]
    ELSE LET d == DIRECTIONS[k]
             n == Toward(cur.cell, d)
             has_wall == HasWall(g.maze[cur.cell].walls, d.wall)
             new_cost == cur.cost + 1
         IN  IF /\ 0 <= n[1] /\ n[1] < g.width
                /\ 0 <= n[2] /\ n[2] < g.height
                /\ ~has_wall
                /\ (~Known(distance, n) \/ new_cost < distance[n])
             THEN Relax(g, cur,
                        pq \cup {[cell |-> n, path |-> Append(cur.path, n),
                                  cost |-> new_cost]},
                        (n :> new_cost) @@ distance, k + 1)
             ELSE Relax(g, cur, pq, distance, k + 1)

\* find_shortest_path_steps 456-457: the entry popped is out of date.
Stale(cur, distance) == Known(distance, cur.cell) /\ cur.cost > distance[cur.cell]

\* First next() on find_shortest_path_steps() without the test of the grid.
PathStartAnyGrid(i) ==
    /\ gen[i].status = "live"
    /\ search' = [search EXCEPT ![i] =
                     [pc |-> "yielded", pq |-> {},
                      distance |-> (gen[i].entry :> 0),
                      cur |-> [cell |-> gen[i].entry,
                               path |-> <<gen[i].entry>>, cost |-> 0]]]
    /\ UNCHANGED <<gen, call, carve, events, rng, files>>

\* First next() on find_shortest_path_steps(): returns at once on an empty
\* grid, else pops the start entry and yields its path.
PathStart(i) ==
    /\ gen[i].status = "live"
    /\ search' = [search EXCEPT ![i] =
                     IF gen[i].maze = <<>>
                     THEN [NoSearch EXCEPT !.pc = "done"]
                     ELSE [pc |-> "yielded", pq |-> {},
                           distance |-> (gen[i].entry :> 0),
                           cur |-> [cell |-> gen[i].entry,
                                    path |-> <<gen[i].entry>>, cost |-> 0]]]
    /\ UNCHANGED <<gen, call, carve, events, rng, files>>

\* A later next() that stores the last path popped when the queue runs out.
PathStepStoresLast(i) ==
    /\ search[i].pc = "yielded"
    /\ LET g == gen[i]
           fr == search[i]
           after == IF Stale(fr.cur, fr.distance)
                    THEN [pq |-> fr.pq, distance |-> fr.distance]
                    ELSE Relax(g, fr.cur, fr.pq, fr.distance, 1)
       IN  IF fr.cur.cell = g.maze_exit \/ after.pq = {}
           THEN /\ gen' = [gen EXCEPT ![i].path = fr.cur.path]
                /\ search' = [search EXCEPT ![i] = [NoSearch EXCEPT !.pc = "done"]]
           ELSE /\ gen' = gen
                /\ search' = [search EXCEPT ![i] =
                      [pc |-> "yielded",
                       pq |-> after.pq \ {HeapMin(after.pq)},
                       distance |-> after.distance,
                       cur |-> HeapMin(after.pq)]]
    /\ UNCHANGED <<call, carve, events, rng, files>>

\* A later next() that stores the path of the exit and goes on popping.
PathStepGoesOn(i) ==
    /\ search[i].pc = "yielded"
    /\ LET g == gen[i]
           fr == search[i]
           after == IF Stale(fr.cur, fr.distance)
                    THEN [pq |-> fr.pq, distance |-> fr.distance]
                    ELSE Relax(g, fr.cur, fr.pq, fr.distance, 1)
       IN  /\ gen' = IF fr.cur.cell = g.maze_exit
                     THEN [gen EXCEPT ![i].path = fr.cur.path]
                     ELSE gen
           /\ search' = [search EXCEPT ![i] =
                 IF after.pq = {}
                 THEN [NoSearch EXCEPT !.pc = "done"]
                 ELSE [pc |-> "yielded",
                       pq |-> after.pq \ {HeapMin(after.pq)},
                       distance |-> after.distance,
                       cur |-> HeapMin(after.pq)]]
    /\ UNCHANGED <<call, carve, events, rng, files>>

\* A later next(): the exit test on the entry just yielded, its expansion,
\* and the next pop and yield, or the return on an empty queue.
PathStep(i) ==
    /\ search[i].pc = "yielded"
    /\ LET g == gen[i]
           fr == search[i]
           after == IF Stale(fr.cur, fr.distance)
                    THEN [pq |-> fr.pq, distance |-> fr.distance]
                    ELSE Relax(g, fr.cur, fr.pq, fr.distance, 1)
       IN  IF fr.cur.cell = g.maze_exit
           THEN /\ gen' = [gen EXCEPT ![i].path = fr.cur.path]
                /\ search' = [search EXCEPT ![i] = [NoSearch EXCEPT !.pc = "done"]]
           ELSE /\ gen' = gen
                /\ search' = [search EXCEPT ![i] =
                      IF after.pq = {}
                      THEN [NoSearch EXCEPT !.pc = "done"]
                      ELSE [pc |-> "yielded",
                            pq |-> after.pq \ {HeapMin(after.pq)},
                            distance |-> after.distance,
                            cur |-> HeapMin(after.pq)]]
    /\ UNCHANGED <<call, carve, events, rng, files>>

\* ------------------------------------------------------------- path_to_str
\* A string is the sequence of its characters.
RECURSIVE PathToStrFrom(_, _, _)
\* The loop of path_to_str with y growing northwards.
PathToStrFromYUp(path, k, prev) ==
    IF k > Len(path)
    THEN <<>>
    ELSE LET direction == <<path[k][1] - prev[1], path[k][2] - prev[2]>>
             added == IF direction = <<0, -1>> THEN <<"S">>
                      ELSE IF direction = <<0, 1>> THEN <<"N">>
                      ELSE IF direction = <<1, 0>> THEN <<"E">>
                      ELSE IF direction = <<-1, 0>> THEN <<"W">>
                      ELSE <<>>
         IN  added \o PathToStrFrom(path, k + 1, path[k])

\* path_to_str 525-536: the characters added for path[k..], prev being the
\* coordinate before path[k]; a delta that is none of the four adds nothing.
PathToStrFrom(path, k, prev) ==
    IF k > Len(path)
    THEN <<>>
    ELSE LET direction == <<path[k][1] - prev[1], path[k][2] - prev[2]>>
             added == IF direction = <<0, -1>> THEN <<"N">>
                      ELSE IF direction = <<0, 1>> THEN <<"S">>
                      ELSE IF direction = <<1, 0>> THEN <<"E">>
                      ELSE IF direction = <<-1, 0>> THEN <<"W">>
                      ELSE <<>>
         IN  added \o PathToStrFrom(path, k + 1, path[k])

\* path_to_str: "" without a path, else the characters of its moves.
PathToStr(g) ==
    IF g.path = <<>> THEN <<>> ELSE PathToStrFrom(g.path, 2, g.path[1])

\* ------------------------------------------------------------- maze_to_str
\* The digits of hex(), upper-cased.
HexDigit(v) ==
    << "0", "1", "2", "3", "4", "5", "6", "7",
       "8", "9", "A", "B", "C", "D", "E", "F" >>[v + 1]

\* The wall bitfield written in base ten.
RECURSIVE ToDecimal(_)
ToDecimal(n) ==
    IF n < 10 THEN <<HexDigit(n)>>
    ELSE ToDecimal(n \div 10) \o <<HexDigit(n % 10)>>

\* Cell.to_hex: hex(walls)[2:].upper(), the digits of walls in base sixteen.
RECURSIVE ToHex(_)
ToHex(n) ==
    IF n < 16 THEN <<HexDigit(n)>>
    ELSE ToHex(n \div 16) \o <<HexDigit(n % 16)>>

\* "".join(cell.to_hex() for cell in row) for the cells x.. of row y.
RECURSIVE RowToStr(_, _, _)
RowToStr(g, y, x) ==
    IF x >= g.width THEN <<>>
    ELSE ToHex(g.maze[<<x, y>>].walls) \o RowToStr(g, y, x + 1)

\* "\n".join(...) for the rows y.. of the grid.
RECURSIVE RowsToStr(_, _)
RowsToStr(g, y) ==
    IF y >= g.height - 1 THEN RowToStr(g, y, 0)
    ELSE RowToStr(g, y, 0) \o <<"\n">> \o RowsToStr(g, y + 1)

\* maze_to_str: the rows of the grid joined by newlines, "" for no rows.
MazeToStr(g) == IF g.maze = <<>> THEN <<>> ELSE RowsToStr(g, 0)

\* ------------------------------------------------------------- write_output
\* An integer of a coordinate formatted by an f-string: its decimal digits.
RECURSIVE FormatInt(_)
FormatInt(n) ==
    IF n < 10 THEN <<HexDigit(n)>>
    ELSE FormatInt(n \div 10) \o <<HexDigit(n % 10)>>

\* The line f"{c[0]}, {c[1]}\n" of a coordinate.
CoordLine(c) == FormatInt(c[1]) \o <<",", " ">> \o FormatInt(c[2]) \o <<"\n">>

\* write_output 21-25: the text written to the file.
OutputText(g) ==
    MazeToStr(g) \o <<"\n", "\n">> \o CoordLine(g.entry)
        \o CoordLine(g.maze_exit) \o PathToStr(g) \o <<"\n">>

\* write_output that also forgets the stored path.
WriteOutputClearsPath(i) ==
    /\ gen[i].status = "live"
    /\ IF gen[i].output_file = ""
       THEN UNCHANGED <<gen, files>>
       ELSE /\ files' = (gen[i].output_file :> OutputText(gen[i])) @@ files
            /\ gen' = [gen EXCEPT ![i].maze = <<>>, ![i].path = <<>>]
    /\ UNCHANGED <<call, carve, search, events, rng>>

\* write_output(gen): the file named by output_file is opened for writing
\* (an empty name makes open() raise before anything is written or changed),
\* the grid, the entry, the exit and the path are written to it, and the grid
\* of the instance is replaced by an empty list.
WriteOutput(i) ==
    /\ gen[i].status = "live"
    /\ IF gen[i].output_file = ""
       THEN UNCHANGED <<gen, files>>
       ELSE /\ files' = (gen[i].output_file :> OutputText(gen[i])) @@ files
            /\ gen' = [gen EXCEPT ![i].maze = <<>>]
    /\ UNCHANGED <<call, carve, search, events, rng>>

\* No generator of i is suspended half-way.
Quiescent(i) ==
    /\ carve[i].pc \in {"idle", "done"}
    /\ search[i].pc \in {"idle", "done"}

\* A constructor call with any of the arguments offered and a file name.
ConstructAny(i) ==
    \E w \in Dims, h \in Dims, e \in EntryPts, x \in ExitPts,
       s \in SeedArgs, p \in BOOLEAN :
        Construct(i, w, h, e, x, s, p, StrArg("maze.txt"))

\* A constructor call with any of the arguments and output files offered.
ConstructWithOutput(i) ==
    \E w \in Dims, h \in Dims, e \in EntryPts, x \in ExitPts,
       s \in SeedArgs, p \in BOOLEAN, o \in OutputArgs :
        Construct(i, w, h, e, x, s, p, o)

\* One instance driven as main() and the one-shot wrappers drive it: every
\* generator is run to its end before another is started, and the carving
\* runs (any number, of either algorithm) come before the path searches.
Next ==
    \/ ConstructAny(1)
    \/ Quiescent(1) /\ search[1].pc = "idle" /\ DfsStart(1)
    \/ DfsStep(1)
    \/ Quiescent(1) /\ search[1].pc = "idle" /\ PrimStart(1)
    \/ PrimStep(1)
    \/ Quiescent(1) /\ PathStart(1)
    \/ PathStep(1)

Spec == Init /\ [][Next]_vars

\* Two instances built with the same arguments, each carved to completion,
\* the second after the first.
NextPair ==
    \/ ConstructAny(1)
    \/ /\ gen[1].status = "live"
       /\ Construct(2, call[1].width, call[1].height, call[1].entry,
                    call[1].maze_exit, call[1].seed, call[1].perfect,
                    call[1].output_file)
    \/ carve[1].pc = "idle" /\ DfsStart(1)
    \/ DfsStep(1)
    \/ carve[1].pc = "idle" /\ PrimStart(1)
    \/ PrimStep(1)
    \/ carve[1].pc = "done" /\ carve[2].pc = "idle" /\ DfsStart(2)
    \/ DfsStep(2)
    \/ carve[1].pc = "done" /\ carve[2].pc = "idle" /\ PrimStart(2)
    \/ PrimStep(2)

SpecPair == Init /\ [][NextPair]_vars

\* Constructor calls alone, the output file among the arguments.
NextConstruct == ConstructWithOutput(1)

SpecConstruct == Init /\ [][NextConstruct]_vars

\* A constructor call on the 9 x 9 grid, corner to corner, seed 1.
ConstructCorners(i) ==
    \E p \in BOOLEAN :
        Construct(i, 9, 9, <<0, 0>>, <<8, 8>>, IntSeed(1), p, StrArg("maze.txt"))

\* The generate button: nothing while a carve animation is running (an Anim
\* whose done flag is false, which is a carve generator not yet exhausted);
\* on an instance that holds a grid the seed attribute is redrawn
\* (randint(0, 100), here a value of 0..MaxSeed); then the first next() on the
\* steps of the algorithm selected, and a new Anim around them: the path
\* search the old Anim held, if any, is dropped with it and path_done is
\* false again.
GenerateOc(i) ==
    /\ gen[i].status = "live"
    /\ carve[i].pc \in {"idle", "done"}
    /\ \E v \in 0..MaxSeed, algo \in {"dfs", "prim"} :
          LET g == IF gen[i].maze # <<>> THEN [gen[i] EXCEPT !.seed = v] ELSE gen[i]
          IN  /\ rng' = SeedRng(g.seed)
              /\ gen' = [gen EXCEPT ![i] = [g EXCEPT !.maze = GenerateGrid(g)]]
              /\ carve' = [carve EXCEPT ![i] = [NoCarve EXCEPT !.pc = "sentinel", !.algo = algo]]
              /\ events' = [events EXCEPT ![i] = <<[cell |-> g.entry, wall |-> NoDirection]>>]
    /\ search' = [search EXCEPT ![i] = NoSearch]
    /\ UNCHANGED <<call, files>>

\* The toggle-perfect button: flips the flag once a carve has finished.
TogglePerfectOc(i) ==
    /\ gen[i].status = "live"
    /\ carve[i].pc = "done"
    /\ gen' = [gen EXCEPT ![i].perfect = ~gen[i].perfect]
    /\ UNCHANGED <<call, carve, search, events, rng, files>>

\* One instance on which carving runs and path searches follow each other in
\* any order, each generator run to its end, the seed redrawn or not and the
\* perfect flag flipped or not between two carving runs.
NextRerun ==
    \/ ConstructCorners(1)
    \/ Quiescent(1) /\ DfsStart(1)
    \/ DfsStep(1)
    \/ Quiescent(1) /\ PrimStart(1)
    \/ PrimStep(1)
    \/ Quiescent(1) /\ GenerateOc(1)
    \/ TogglePerfectOc(1)
    \/ Quiescent(1) /\ PathStart(1)
    \/ PathStep(1)

SpecRerun == Init /\ [][NextRerun]_vars

\* One instance carved again and again by the generate button, every run
\* being advanced for as long as it can be (the animation hooks of the
\* visualizer, the loops of dfs() and prim()).
NextCarve ==
    \/ ConstructCorners(1)
    \/ GenerateOc(1)
    \/ DfsStep(1)
    \/ PrimStep(1)

\* A generator of dfs_steps, of prim_steps, is suspended at a yield: the
\* states in which DfsStep(1), PrimStep(1), can be taken, each changing carve.
DfsSuspended ==
    carve[1].algo = "dfs" /\ carve[1].pc \in {"sentinel", "yielded"}

PrimSuspended ==
    carve[1].algo = "prim" /\ carve[1].pc \in {"sentinel", "yielded"}

\* Weak fairness of the two advances, WF_vars(DfsStep(1)) and
\* WF_vars(PrimStep(1)), with ENABLED written as the suspended states: a
\* generator that stays suspended is advanced again.
CarveFairness ==
    /\ []<>(~DfsSuspended) \/ []<><<DfsStep(1)>>_vars
    /\ []<>(~PrimSuspended) \/ []<><<PrimStep(1)>>_vars

SpecCarveLive == Init /\ [][NextCarve]_vars /\ CarveFairness

\* One instance whose carving run may be left suspended: a path search is
\* started on whatever the grid holds and run to its end, and carving goes on
\* or starts over only between searches.
NextPartial ==
    \/ ConstructCorners(1)
    \/ Quiescent(1) /\ DfsStart(1)
    \/ search[1].pc \in {"idle", "done"} /\ DfsStep(1)
    \/ Quiescent(1) /\ PrimStart(1)
    \/ search[1].pc \in {"idle", "done"} /\ PrimStep(1)
    \/ search[1].pc \in {"idle", "done"} /\ PathStart(1)
    \/ PathStep(1)

SpecPartial == Init /\ [][NextPartial]_vars

\* main() 47-64 on a parsed configuration (call[i] keeps it, SEED absent being
\* None): MazeGenerator(WIDTH, HEIGHT, ENTRY, EXIT, SEED, OUTPUT_FILE, PERFECT)
\* binds SEED to output_file, OUTPUT_FILE to perfect and PERFECT to seed.  An
\* integer or None is no string, so _validate_inputs raises at the latest at
\* its output-file check; main prints the error and exits with status 1, and
\* dfs, find_shortest_path and write_output (65-67) are not reached.
MainConstruct(i, config) ==
    /\ gen[i].status = "none"
    /\ call' = [call EXCEPT ![i] = config]
    /\ LET seed == IF config.perfect THEN IntSeed(1) ELSE IntSeed(0)
           output_file == NotStr
           raised == ValidateInputs(config.width, config.height, config.entry,
                                    config.maze_exit, seed, output_file)
       IN  gen' = [gen EXCEPT ![i] =
                      [NoGen EXCEPT
                          !.status = "failed",
                          !.err = IF raised # "ok" THEN raised
                                  ELSE "TypeError: Perfect flag must be a boolean (True/False)!"]]
    /\ UNCHANGED <<carve, search, events, rng, files>>

\* main() on any configuration that return_config can hand over.
Main(i) ==
    \E w \in Dims, h \in Dims, e \in EntryPts, x \in ExitPts,
       s \in SeedArgs, p \in BOOLEAN :
        MainConstruct(i, [width |-> w, height |-> h, entry |-> e,
                          maze_exit |-> x, seed |-> s,
                          output_file |-> StrArg("maze.txt"), perfect |-> p])

\* The command-line program run once.
NextMain == Main(1)

SpecMain == Init /\ [][NextMain]_vars

\* How many wall-removal events either of two instances may have yielded
\* while their runs are advanced in turn; past it instance 1 is run to its
\* end before instance 2 goes on.
MaxLead == 2

\* A second instance built with the arguments of the first, the seed being
\* the same or another one.
ConstructTwin ==
    /\ gen[1].status = "live"
    /\ \E s \in {call[1].seed, IntSeed(MaxSeed)} :
          Construct(2, call[1].width, call[1].height, call[1].entry,
                    call[1].maze_exit, s, call[1].perfect, call[1].output_file)

\* Instance 2 may be advanced between two advances of instance 1.
Turn2 ==
    \/ carve[1].pc = "done"
    \/ Len(events[1]) <= MaxLead + 1 /\ Len(events[2]) <= MaxLead

\* Two instances whose step sequences are advanced in an interleaved order
\* by one thread of control, each of them carved once.
NextInterleave ==
    \/ ConstructCorners(1)
    \/ ConstructTwin
    \/ carve[1].pc = "idle" /\ DfsStart(1)
    \/ DfsStep(1)
    \/ carve[1].pc = "idle" /\ PrimStart(1)
    \/ PrimStep(1)
    \/ carve[2].pc = "idle" /\ Turn2 /\ DfsStart(2)
    \/ Turn2 /\ DfsStep(2)
    \/ carve[2].pc = "idle" /\ Turn2 /\ PrimStart(2)
    \/ Turn2 /\ PrimStep(2)

SpecInterleave == Init /\ [][NextInterleave]_vars

\* One instance carved, searched and exported in any order, every generator
\* run to its end before the next call.
NextExport ==
    \/ ConstructCorners(1)
    \/ Quiescent(1) /\ DfsStart(1)
    \/ DfsStep(1)
    \/ Quiescent(1) /\ PrimStart(1)
    \/ PrimStep(1)
    \/ Quiescent(1) /\ PathStart(1)
    \/ PathStep(1)
    \/ Quiescent(1) /\ WriteOutput(1)

SpecExport == Init /\ [][NextExport]_vars

\* The find-path button without the test of the done flag of the carve.
FindPathOcAnyTime(i) ==
    /\ gen[i].status = "live"
    /\ carve[i].pc # "idle"
    /\ search[i].pc # "done"
    /\ search' = [search EXCEPT ![i] = [NoSearch EXCEPT !.pc = "new"]]
    /\ UNCHANGED <<gen, call, carve, events, rng, files>>

\* The find-path button: when the carve animation is done and no path search
\* of this Anim has ended, a generator of find_shortest_path_steps is created
\* (pc "new": not advanced yet) and animate_path_finding becomes the loop
\* hook.  Without an Anim the handler raises on xvar.anim.done and changes
\* nothing.
FindPathOc(i) ==
    /\ gen[i].status = "live"
    /\ carve[i].pc = "done"
    /\ search[i].pc # "done"
    /\ search' = [search EXCEPT ![i] = [NoSearch EXCEPT !.pc = "new"]]
    /\ UNCHANGED <<gen, call, carve, events, rng, files>>

\* animate_dfs on a tick that advances: the loop hook is animate_dfs from the
\* generate click until a find-path click replaces it; the tick that finds
\* the generator exhausted sets the done flag.  Ticks that only count, and
\* the drawing, change nothing that is modelled.
AnimateDfs(i) == search[i].pc = "idle" /\ DfsStep(i)

\* animate_prim, likewise.
AnimatePrim(i) == search[i].pc = "idle" /\ PrimStep(i)

\* animate_path_finding on a tick that advances, path_done being false: one
\* next() on the path search; the tick that finds it exhausted sets path_done.
AnimatePathFinding(i) ==
    \/ search[i].pc = "new" /\ PathStart(i)
    \/ PathStep(i)

\* The visualizer on its one instance: button clicks and animation ticks in
\* any order.
NextVisualizer ==
    \/ ConstructCorners(1)
    \/ GenerateOc(1)
    \/ TogglePerfectOc(1)
    \/ AnimateDfs(1)
    \/ AnimatePrim(1)
    \/ FindPathOc(1)
    \/ AnimatePathFinding(1)

SpecVisualizer == Init /\ [][NextVisualizer]_vars

\* ------------------------------------------------------------- the grid as a graph
\* The instances that exist.
Live == {i \in Inst : gen[i].status = "live"}

\* The instances whose grid holds cells.
Carved == {i \in Live : gen[i].maze # <<>>}

InGrid(g, c) == 0 <= c[1] /\ c[1] < g.width /\ 0 <= c[2] /\ c[2] < g.height

FreeCells(g) == Coords(g.width, g.height) \ Range(g.pattern_42)

\* There is no wall between c and its neighbour in direction d, on either side.
Passage(g, c, d) ==
    /\ InGrid(g, Toward(c, d))
    /\ ~HasWall(g.maze[c].walls, d.wall)
    /\ ~HasWall(g.maze[Toward(c, d)].walls, d.op_wall)

Steps(g, c) == {Toward(c, d) : d \in {e \in Range(DIRECTIONS) : Passage(g, c, e)}}

\* The cells reachable through passages from the cells of `front`, `seen`
\* being the cells already reached.
RECURSIVE Reach(_, _, _)
Reach(g, seen, front) ==
    IF front = {} THEN seen
    ELSE LET new == UNION {Steps(g, c) : c \in front} \ seen
         IN  Reach(g, seen \cup new, new)

\* The breadth-first distance from the cells of `front`, which lie at
\* distance n, to the cell `to`; -1 when no passage leads there.
RECURSIVE Distance(_, _, _, _, _)
Distance(g, seen, front, to, n) ==
    IF to \in front THEN n
    ELSE IF front = {} THEN -1
    ELSE LET new == UNION {Steps(g, c) : c \in front} \ seen
         IN  Distance(g, seen \cup new, new, to, n + 1)

\* The passages of the grid, each counted once (from its west or north end).
Passages(g) ==
    {<<c, d>> \in Coords(g.width, g.height) \X {DIRECTIONS[2], DIRECTIONS[3]} :
        Passage(g, c, d)}

\* The passages form a tree that spans exactly the cells of `cells`.
SpanningTree(g, cells) ==
    /\ Reach(g, {g.entry}, {g.entry}) = cells
    /\ Cardinality(Passages(g)) = Cardinality(cells) - 1

\* The wall-removal events of the current run: all but the sentinel.
Removals(i) == Len(events[i]) - 1

\* The constructor call of i had arguments that pass every check of
\* __init__ once the seed is a positive integer.
CallValidButSeed(i) ==
    /\ ValidateInputs(call[i].width, call[i].height, call[i].entry,
                      call[i].maze_exit, IntSeed(1), call[i].output_file) = "ok"
    /\ GeneratePattern42(call[i].width, call[i].height, call[i].entry,
                         call[i].maze_exit) = "ok"

Called == {i \in Inst : gen[i].status # "none"}

\* ------------------------------------------------------------- claims
\* C1: at every step boundary of dfs_steps and prim_steps and after
\* braid_dead_ends, for every two cardinally adjacent cells of the grid A and
\* B, A's wall facing B is absent if and only if B's wall facing A is absent.
C1_WallSymmetry ==
    \A i \in Carved :
        \A c \in Coords(gen[i].width, gen[i].height) :
            \A k \in 1..Len(DIRECTIONS) :
                InGrid(gen[i], Toward(c, DIRECTIONS[k])) =>
                    (HasWall(gen[i].maze[c].walls, DIRECTIONS[k].wall)
                     <=> HasWall(gen[i].maze[Toward(c, DIRECTIONS[k])].walls,
                                 DIRECTIONS[k].op_wall))

\* A braided grid: a finished non-perfect run that holds more passages than
\* wall-removal events, so the braiding pass has opened walls too.
C1_Witness ==
    \E i \in Carved :
        /\ carve[i].pc = "done"
        /\ ~gen[i].perfect
        /\ Cardinality(Passages(gen[i])) > Removals(i)

\* C2: in every state reached by dfs and prim runs, perfect or braided, every
\* cell at a coordinate of pattern_42 has its four walls (0xF) and is not
\* marked visited.
C2_PatternUntouched ==
    \A i \in Carved :
        \A k \in 1..Len(gen[i].pattern_42) :
            /\ gen[i].maze[gen[i].pattern_42[k]].walls = AllWalls
            /\ ~gen[i].maze[gen[i].pattern_42[k]].vis

\* A finished braided run in which every free cell beside the pattern has
\* been visited and the cell enclosed by the glyph on three sides is open.
C2_Witness ==
    \E i \in Carved :
        /\ carve[i].pc = "done"
        /\ ~gen[i].perfect
        /\ Len(gen[i].pattern_42) = 18
        /\ \A c \in FreeCells(gen[i]) : gen[i].maze[c].vis
        /\ \E c \in FreeCells(gen[i]) :
              /\ Cardinality({d \in Range(DIRECTIONS) :
                                 Toward(c, d) \in Range(gen[i].pattern_42)}) = 3
              /\ gen[i].maze[c].walls # AllWalls

\* C3: with perfect = True a dfs run driven to completion has emitted, after
\* the sentinel, exactly (number of non-protected cells - 1) wall-removal
\* events, and the passages form a spanning tree of the non-protected cells.
C3_DfsSpanningTree ==
    \A i \in Carved :
        (carve[i].pc = "done" /\ carve[i].algo = "dfs" /\ gen[i].perfect) =>
            /\ Removals(i) = Cardinality(FreeCells(gen[i])) - 1
            /\ SpanningTree(gen[i], FreeCells(gen[i]))

\* A finished perfect dfs run from an interior entry.
C3_Witness ==
    \E i \in Carved :
        /\ carve[i].pc = "done" /\ carve[i].algo = "dfs" /\ gen[i].perfect
        /\ gen[i].entry = <<4, 3>>
        /\ Removals(i) = 62

\* C4: with perfect = True a prim run driven to completion has emitted, after
\* the sentinel, exactly (number of non-protected cells - 1) wall-removal
\* events, and the passages form a spanning tree of the non-protected cells.
C4_PrimSpanningTree ==
    \A i \in Carved :
        (carve[i].pc = "done" /\ carve[i].algo = "prim" /\ gen[i].perfect) =>
            /\ Removals(i) = Cardinality(FreeCells(gen[i])) - 1
            /\ SpanningTree(gen[i], FreeCells(gen[i]))

\* A finished perfect prim run from an interior entry.
C4_Witness ==
    \E i \in Carved :
        /\ carve[i].pc = "done" /\ carve[i].algo = "prim" /\ gen[i].perfect
        /\ gen[i].entry = <<4, 3>>
        /\ Removals(i) = 62

\* The path p runs from entry to exit through passages of the grid and has
\* as many moves as the breadth-first distance from entry to exit.
ShortestValid(g, p) ==
    /\ p # <<>>
    /\ p[1] = g.entry
    /\ p[Len(p)] = g.maze_exit
    /\ \A k \in 1..(Len(p) - 1) :
          \E d \in Range(DIRECTIONS) : p[k + 1] = Toward(p[k], d) /\ Passage(g, p[k], d)
    /\ Len(p) - 1 = Distance(g, {g.entry}, {g.entry}, g.maze_exit, 0)

SameParameters(i, j) ==
    /\ gen[i].width = gen[j].width /\ gen[i].height = gen[j].height
    /\ gen[i].entry = gen[j].entry /\ gen[i].maze_exit = gen[j].maze_exit
    /\ gen[i].seed = gen[j].seed /\ gen[i].perfect = gen[j].perfect

\* C6: two instances with identical width, height, entry, exit, seed and
\* perfect flag, each run to completion through the same carving algorithm
\* one after the other, have emitted identical event sequences and hold
\* identical wall states in every cell.
C6_Deterministic ==
    \A i \in Carved, j \in Carved :
        (/\ SameParameters(i, j)
         /\ carve[i].pc = "done" /\ carve[j].pc = "done"
         /\ carve[i].algo = carve[j].algo) =>
            /\ events[i] = events[j]
            /\ \A c \in DOMAIN gen[i].maze :
                  gen[i].maze[c].walls = gen[j].maze[c].walls

\* Both instances have finished the same algorithm, the second one starting
\* from the random state the first one's run and braiding left behind.
C6_Witness ==
    /\ Carved = {1, 2}
    /\ SameParameters(1, 2)
    /\ carve[1].pc = "done" /\ carve[2].pc = "done"
    /\ carve[1].algo = carve[2].algo
    /\ ~gen[1].perfect
    /\ Removals(2) > 1

C8_SmallGridCarves ==
    \A i \in Called :
        (/\ call[i].width >= 3 /\ call[i].height >= 3
         /\ (call[i].width <= 8 \/ call[i].height <= 8)
         /\ InGrid(call[i], call[i].entry) /\ InGrid(call[i], call[i].maze_exit)
         /\ call[i].entry # call[i].maze_exit
         /\ SeedTruthy(call[i].seed) /\ call[i].seed.val > 0
         /\ call[i].perfect) =>
            /\ gen[i].status = "live"
            /\ (carve[i].pc = "done" =>
                   /\ Removals(i) = gen[i].width * gen[i].height - 1
                   /\ SpanningTree(gen[i], Coords(gen[i].width, gen[i].height)))

\* C9: for every non-negative integer seed, 0 included, construction with
\* otherwise valid arguments succeeds and the stored seed is the supplied one.
C9_NonNegativeSeedStored ==
    \A i \in Called :
        (/\ CallValidButSeed(i)
         /\ ~call[i].seed.isNone /\ call[i].seed.val >= 0) =>
            /\ gen[i].status = "live"
            /\ gen[i].seed = call[i].seed.val

\* C10: construction with seed None and otherwise valid arguments succeeds,
\* and the instance holds a non-negative integer seed from then on.
C10_NoneSeedChosen ==
    \A i \in Called :
        (CallValidButSeed(i) /\ call[i].seed.isNone) =>
            /\ gen[i].status = "live"
            /\ gen[i].seed \in Nat

\* C11: every instance that exists has distinct entry and exit, both inside
\* [0, width) x [0, height) and neither in pattern_42, in every state that
\* carving, braiding and path finding reach; a constructor call whose entry
\* or exit is out of bounds, equal to the other, or inside the pattern
\* raises and yields no instance.
C11_EntryExitValid ==
    /\ \A i \in Live :
          /\ gen[i].entry # gen[i].maze_exit
          /\ InGrid(gen[i], gen[i].entry) /\ InGrid(gen[i], gen[i].maze_exit)
          /\ gen[i].entry \notin Range(gen[i].pattern_42)
          /\ gen[i].maze_exit \notin Range(gen[i].pattern_42)
    /\ \A i \in Called :
          (\/ ~InGrid(call[i], call[i].entry)
           \/ ~InGrid(call[i], call[i].maze_exit)
           \/ call[i].entry = call[i].maze_exit
           \/ call[i].entry \in Range(Pattern42(call[i].width, call[i].height))
           \/ call[i].maze_exit \in Range(Pattern42(call[i].width, call[i].height)))
              => gen[i].status = "failed"

\* A call on a grid that holds the pattern, with a valid entry and a valid
\* seed, refused because its exit lies inside the pattern.
C11_Witness ==
    \E i \in Called :
        /\ gen[i].status = "failed"
        /\ gen[i].err = "ValueError: Exit point is inside 42 pattern!"
        /\ call[i].maze_exit \in Range(Pattern42(call[i].width, call[i].height))

\* C12: construction with the empty string as output file and otherwise
\* valid arguments raises a validation error and yields no instance.
C12_EmptyOutputRejected ==
    \A i \in Called :
        (/\ CallValidButSeed(i)
         /\ SeedTruthy(call[i].seed) /\ call[i].seed.val > 0
         /\ call[i].output_file = StrArg("")) =>
            gen[i].status = "failed"

\* The eighteen coordinates of the glyph on the 9 x 9 grid.
Glyph9 ==
    { <<1, 2>>, <<1, 3>>, <<1, 4>>, <<2, 4>>, <<3, 4>>, <<3, 5>>, <<3, 6>>,
      <<5, 2>>, <<5, 4>>, <<5, 5>>, <<5, 6>>, <<6, 2>>, <<6, 4>>, <<6, 6>>,
      <<7, 2>>, <<7, 3>>, <<7, 4>>, <<7, 6>> }

\* C13: for width 9 and height 9 the protected region is exactly the 18
\* coordinates of Glyph9, anchored at (1,2); construction with entry (0,0) and
\* exit (8,8) succeeds, and construction with entry (1,2) fails with the
\* pattern-violation error.
C13_Pattern9x9 ==
    \A i \in Called :
        (/\ call[i].width = 9 /\ call[i].height = 9
         /\ SeedTruthy(call[i].seed) /\ call[i].seed.val > 0
         /\ call[i].output_file.isStr) =>
            /\ gen[i].status = "live" =>
                  /\ Len(gen[i].pattern_42) = 18
                  /\ Range(gen[i].pattern_42) = Glyph9
                  /\ gen[i].pattern_42[1] = <<1, 2>>
            /\ (call[i].entry = <<0, 0>> /\ call[i].maze_exit = <<8, 8>>)
                  => gen[i].status = "live"
            /\ (/\ call[i].entry = <<1, 2>>
                /\ InGrid(call[i], call[i].maze_exit))
                  => /\ gen[i].status = "failed"
                     /\ gen[i].err = "ValueError: Entry point is inside 42 pattern!"

\* An instance stands on the 9 x 9 grid with entry (0,0) and exit (8,8), its
\* grid carved around the glyph.
C13_Witness ==
    \E i \in Carved :
        /\ gen[i].width = 9 /\ gen[i].height = 9
        /\ gen[i].entry = <<0, 0>> /\ gen[i].maze_exit = <<8, 8>>
        /\ Range(gen[i].pattern_42) = Glyph9
        /\ carve[i].pc = "done"

\* The path p runs from entry to exit, each move between adjacent cells with
\* no wall between them in the grid of g.
PathValid(g, p) ==
    /\ p[1] = g.entry
    /\ p[Len(p)] = g.maze_exit
    /\ \A k \in 1..(Len(p) - 1) :
          \E d \in Range(DIRECTIONS) : p[k + 1] = Toward(p[k], d) /\ Passage(g, p[k], d)

\* C14: in every reachable state, whenever the stored path is non-empty it
\* runs from entry to exit and no consecutive pair of its coordinates has a
\* wall between them in the current grid, also after a carving algorithm is
\* re-run on an instance that holds a path.
C14_StoredPathValid ==
    \A i \in Carved : gen[i].path # <<>> => PathValid(gen[i], gen[i].path)

\* The configuration a carving run works with, the seed aside.
SameConfiguration(g, h) ==
    /\ g.width = h.width /\ g.height = h.height
    /\ g.entry = h.entry /\ g.maze_exit = h.maze_exit
    /\ g.perfect = h.perfect /\ g.pattern_42 = h.pattern_42

\* C15: the first advance of dfs_steps or prim_steps replaces the grid by
\* width x height fresh cells (four walls, not visited) whatever the grid held
\* before, and from there to the end of the run width, height, entry, exit,
\* seed, perfect flag and pattern_42 stay as they are.  (The generate button
\* redraws the seed before it creates the generator; that is not part of the
\* run.)
C15_FreshGridSameConfiguration ==
    [][\A i \in Inst :
          /\ (carve[i].pc \in {"idle", "done"} /\ carve'[i].pc = "sentinel") =>
                /\ DOMAIN gen'[i].maze = Coords(gen[i].width, gen[i].height)
                /\ \A c \in DOMAIN gen'[i].maze :
                      gen'[i].maze[c] = [walls |-> 15, vis |-> FALSE]
                /\ SameConfiguration(gen[i], gen'[i])
          /\ (carve[i].pc \in {"sentinel", "yielded"} /\ carve'[i] # carve[i]) =>
                /\ SameConfiguration(gen[i], gen'[i])
                /\ gen'[i].seed = gen[i].seed]_vars

\* A run has just made its first advance on an instance whose earlier grid
\* was carved and searched: the old path is still stored, the grid is fresh.
C15_Witness ==
    \E i \in Carved :
        /\ carve[i].pc = "sentinel"
        /\ gen[i].path # <<>>
        /\ \A c \in DOMAIN gen[i].maze : gen[i].maze[c].walls = 15

\* The grid `after` is the grid `before` less the wall `wall` of cell c and
\* the opposite wall of c's neighbour on that side, both of which stood.
OnePairRemoved(g, before, after, c, wall) ==
    \E d \in Range(DIRECTIONS) :
        /\ d.wall = wall
        /\ InGrid(g, Toward(c, d))
        /\ HasWall(before[c].walls, d.wall)
        /\ HasWall(before[Toward(c, d)].walls, d.op_wall)
        /\ \A k \in DOMAIN before :
              after[k].walls =
                  IF k = c THEN before[k].walls - d.wall
                  ELSE IF k = Toward(c, d) THEN before[k].walls - d.op_wall
                  ELSE before[k].walls

\* C16: in every run of dfs_steps and of prim_steps the first event is
\* (entry, -1), emitted while every wall of the grid still stands; every later
\* event is (cell, d) with d one of the four wall constants and cell an
\* in-bounds cell outside the pattern, and since the event before it exactly
\* one pair of walls has gone: wall d of the cell and the opposite wall of its
\* neighbour on that side.
C16_EventsTrackRemovals ==
    [][\A i \in Inst :
          /\ (carve[i].pc \in {"idle", "done"} /\ carve'[i].pc = "sentinel") =>
                /\ events'[i] = <<[cell |-> gen[i].entry, wall |-> -1]>>
                /\ \A c \in DOMAIN gen'[i].maze : gen'[i].maze[c].walls = 15
          /\ (carve[i].pc \in {"sentinel", "yielded"} /\ carve'[i].pc = "yielded") =>
                /\ Len(events'[i]) = Len(events[i]) + 1
                /\ SubSeq(events'[i], 1, Len(events[i])) = events[i]
                /\ LET ev == events'[i][Len(events'[i])]
                   IN  /\ ev.wall \in {1, 2, 4, 8}
                       /\ ev.cell \in FreeCells(gen[i])
                       /\ OnePairRemoved(gen[i], gen[i].maze, gen'[i].maze,
                                         ev.cell, ev.wall)
          /\ (carve[i].pc \in {"sentinel", "yielded"} /\ carve'[i].pc = "done") =>
                events'[i] = events[i]]_vars

\* A carving run suspended after its second wall-removal event or a later one.
C16_Witness ==
    \E i \in Carved :
        /\ carve[i].pc = "yielded"
        /\ Len(events[i]) >= 3
        /\ events[i][1].wall = -1
        /\ events[i][Len(events[i])].wall \in {1, 2, 4, 8}

\* No chain of passages leads from entry to exit in the grid of g.
ExitUnreachable(g) == g.maze_exit \notin Reach(g, {g.entry}, {g.entry})

\* C17: when exit is not reachable from entry in the current grid (a grid
\* left partially carved, say), the search ends after finitely many step
\* events by running out of queue entries: no path it emits ends at exit,
\* each emitted entry is strictly greater in (cost, cell) than the one before
\* with a cost below the number of cells, and the stored path keeps the value
\* it had before the call.
C17_UnreachableExitKeepsPath ==
    [][\A i \in Carved :
          (ExitUnreachable(gen[i]) /\ search'[i] # search[i]) =>
              /\ gen'[i].path = gen[i].path
              /\ search'[i].pc \in {"yielded", "done"}
              /\ search'[i].pc = "yielded" =>
                    LET cur == search'[i].cur
                    IN  /\ cur.path[Len(cur.path)] # gen[i].maze_exit
                        /\ cur.cost < gen[i].width * gen[i].height
                        /\ search[i].pc = "yielded" => EntryLess(search[i].cur, cur)
              /\ (search[i].pc = "yielded" /\ search'[i].pc = "done") =>
                    /\ search[i].cur.cell # gen[i].maze_exit
                    /\ search[i].pq = {}]_vars

\* A search has returned on a grid whose carving run is suspended half-way
\* with the exit cut off, the path of an earlier grid still stored.
C17_Witness ==
    \E i \in Carved :
        /\ carve[i].pc = "yielded"
        /\ search[i].pc = "done"
        /\ ExitUnreachable(gen[i])
        /\ gen[i].path # <<>>

\* C18: on an instance whose grid is empty because no carve has been started,
\* a call of find_shortest_path (an advance of find_shortest_path_steps)
\* returns at once: it emits no step event and leaves the stored path, empty
\* on a fresh instance, and the rest of the instance as they are.
C18_EmptyGridNoSearch ==
    [][\A i \in Live :
          (gen[i].maze = <<>> /\ gen'[i].status = "live" /\ search'[i] # search[i]) =>
              /\ search'[i].pc = "done"
              /\ gen'[i] = gen[i]
              /\ gen'[i].path = <<>>
              /\ events'[i] = events[i]]_vars

\* A search has been called, and has returned, on an instance never carved.
C18_Witness ==
    \E i \in Live :
        /\ gen[i].maze = <<>>
        /\ carve[i].pc = "idle"
        /\ search[i].pc = "done"
        /\ gen[i].path = <<>>

\* C19: on any grid reached by carving and braiding, no path emitted as a
\* step event by find_shortest_path_steps and no stored path holds a
\* coordinate of pattern_42.
C19_PathsAvoidPattern ==
    \A i \in Carved :
        /\ Range(gen[i].path) \cap Range(gen[i].pattern_42) = {}
        /\ search[i].pc = "yielded" =>
              Range(search[i].cur.path) \cap Range(gen[i].pattern_42) = {}

\* A search on a braided grid has emitted a path that runs next to a cell of
\* the pattern.
C19_Witness ==
    \E i \in Carved :
        /\ ~gen[i].perfect
        /\ carve[i].pc = "done"
        /\ search[i].pc = "yielded"
        /\ \E d \in Range(DIRECTIONS) :
              Toward(search[i].cur.cell, d) \in Range(gen[i].pattern_42)

\* The coordinate one move from c: N is y - 1, S is y + 1, E is x + 1, W is
\* x - 1.
Move(c, t) ==
    IF t = "N" THEN <<c[1], c[2] - 1>>
    ELSE IF t = "S" THEN <<c[1], c[2] + 1>>
    ELSE IF t = "E" THEN <<c[1] + 1, c[2]>>
    ELSE <<c[1] - 1, c[2]>>

\* The coordinates visited when the tokens are replayed from c, c included.
RECURSIVE Replay(_, _)
Replay(c, tokens) ==
    IF tokens = <<>> THEN <<c>>
    ELSE <<c>> \o Replay(Move(c, Head(tokens)), Tail(tokens))

RECURSIVE SplitLines(_)
SplitLines(s) ==
    IF \A k \in 1..Len(s) : s[k] # "\n" THEN <<s>>
    ELSE LET k == CHOOSE j \in 1..Len(s) :
                      s[j] = "\n" /\ \A m \in 1..(j - 1) : s[m] # "\n"
         IN  <<SubSeq(s, 1, k - 1)>> \o SplitLines(SubSeq(s, k + 1, Len(s)))

\* The wall state a hexadecimal digit stands for: bit 1 north, 2 east,
\* 4 south, 8 west.
DecodeWalls(ch) ==
    LET v == CHOOSE n \in 0..15 : HexDigit(n) = ch
    IN  [north |-> v % 2 = 1, east |-> (v \div 2) % 2 = 1,
         south |-> (v \div 4) % 2 = 1, west |-> (v \div 8) % 2 = 1]

\* C21: maze_to_str yields height lines of exactly width characters, each the
\* single hexadecimal digit whose value is the cell's wall bitfield (north 1,
\* east 2, south 4, west 8); the sixteen wall states have sixteen different
\* encodings, so decoding the text gives back the walls of every cell.
C21_MazeToStrRoundTrip ==
    /\ \A a \in 0..15 : Len(ToHex(a)) = 1
    /\ \A a, b \in 0..15 : ToHex(a) = ToHex(b) => a = b
    /\ \A i \in Carved :
          LET lines == SplitLines(MazeToStr(gen[i]))
          IN  /\ Len(lines) = gen[i].height
              /\ \A y \in 1..Len(lines) :
                    /\ Len(lines[y]) = gen[i].width
                    /\ \A x \in 1..Len(lines[y]) :
                          LET cell == gen[i].maze[<<x - 1, y - 1>>]
                              walls == DecodeWalls(lines[y][x])
                          IN  /\ lines[y][x] \in {HexDigit(n) : n \in 0..15}
                              /\ walls.north = HasWall(cell.walls, NORTH)
                              /\ walls.east = HasWall(cell.walls, EAST)
                              /\ walls.south = HasWall(cell.walls, SOUTH)
                              /\ walls.west = HasWall(cell.walls, WEST)

\* A braided grid whose text holds digits above 9 as well as digits below.
C21_Witness ==
    \E i \in Carved :
        /\ carve[i].pc = "done"
        /\ ~gen[i].perfect
        /\ {"A", "C", "5", "3"} \subseteq Range(MazeToStr(gen[i]))

\* C22: for a configuration with valid values for all mandatory keys, with or
\* without SEED, main() builds a MazeGenerator whose width, height, entry,
\* exit, output file, perfect flag and seed are the configured WIDTH, HEIGHT,
\* ENTRY, EXIT, OUTPUT_FILE, PERFECT and SEED, so that construction succeeds.
C22_MainBindsByMeaning ==
    \A i \in Called :
        (/\ CallValidButSeed(i)
         /\ call[i].seed.isNone \/ call[i].seed.val > 0) =>
            /\ gen[i].status = "live"
            /\ gen[i].width = call[i].width /\ gen[i].height = call[i].height
            /\ gen[i].entry = call[i].entry /\ gen[i].maze_exit = call[i].maze_exit
            /\ gen[i].output_file = call[i].output_file.val
            /\ gen[i].perfect = call[i].perfect
            /\ ~call[i].seed.isNone => gen[i].seed = call[i].seed.val

\* C23: at every step boundary of dfs_steps (the neighbour carved into being
\* marked and pushed before the event is emitted) every cell that has at least
\* one wall removed is marked visited, and after a wall-removal event the
\* cell carved into is on top of the stack.
C23_CarvedCellsVisited ==
    \A i \in Carved :
        (carve[i].algo = "dfs" /\ carve[i].pc \in {"sentinel", "yielded"}) =>
            /\ \A c \in DOMAIN gen[i].maze :
                  gen[i].maze[c].walls # 15 => gen[i].maze[c].vis
            /\ carve[i].pc = "yielded" =>
                  LET ev == events[i][Len(events[i])]
                      d == CHOOSE e \in Range(DIRECTIONS) : e.wall = ev.wall
                  IN  carve[i].stack[Len(carve[i].stack)] = Toward(ev.cell, d)

\* The directions from c that lead to an in-bounds non-protected cell.
Eligible(g, c) ==
    LET inb(d) == InMazeBounds(g, c[1] + d.dx, c[2] + d.dy)
    IN  SelectSeq(DIRECTIONS, inb)

\* The record of one braiding pass over the grid mz from the k-th interior
\* cell on, in row-major order: for every non-protected cell examined with
\* exactly three walls and an eligible neighbour, the cell, the direction
\* drawn and the grid as it stood when the cell was examined.
RECURSIVE BraidLog(_, _, _, _)
BraidLog(g, mz, r, k) ==
    IF k >= (g.width - 2) * (g.height - 2)
    THEN <<>>
    ELSE LET c == <<1 + (k % (g.width - 2)), 1 + (k \div (g.width - 2))>>
             pick == RandIndex(r, Len(Eligible(g, c)))
             d == Eligible(g, c)[pick.val + 1]
         IN  IF /\ c \notin Range(g.pattern_42)
                /\ WallCount(mz[c]) = 3
                /\ Eligible(g, c) # <<>>
             THEN <<[cell |-> c, dir |-> d, maze |-> mz]>>
                      \o BraidLog(g, Carve(mz, c, d), pick.rng, k + 1)
             ELSE BraidLog(g, mz, r, k + 1)

\* The step of i is the last advance of a carving run that braids.
BraidingStep(i) ==
    /\ gen[i].status = "live"
    /\ carve[i].pc \in {"sentinel", "yielded"}
    /\ carve'[i].pc = "done"
    /\ ~gen[i].perfect

\* C24: after braid_dead_ends has completed, every interior non-protected
\* cell that had exactly three walls when the pass examined it and had at
\* least one in-bounds non-protected neighbour has at most two walls.
C24_DeadEndsOpened ==
    [][\A i \in Inst :
          BraidingStep(i) =>
              LET log == BraidLog(gen[i], gen[i].maze, SeedRng(gen[i].seed), 0)
              IN  \A k \in 1..Len(log) :
                      WallCount(gen'[i].maze[log[k].cell]) <= 2]_vars

\* The walls of every cell of a grid.
Walls(mz) == [c \in DOMAIN mz |-> mz[c].walls]

\* C25: every wall pair changed by braid_dead_ends lies between an interior
\* cell (1 <= x <= width-2, 1 <= y <= height-2) that is non-protected and had
\* exactly three walls when examined, and one of its in-bounds non-protected
\* neighbours; the cells are examined once each in row-major order and at
\* most one wall pair is removed per examined cell.
C25_BraidChangesDeadEndsOnly ==
    [][\A i \in Inst :
          BraidingStep(i) =>
              LET g == gen[i]
                  log == BraidLog(g, g.maze, SeedRng(g.seed), 0)
                  n == Len(log)
                  order(c) == c[2] * g.width + c[1]
              IN  /\ Walls(gen'[i].maze) =
                        IF n = 0 THEN Walls(g.maze)
                        ELSE Walls(Carve(log[n].maze, log[n].cell, log[n].dir))
                  /\ n > 0 => log[1].maze = g.maze
                  /\ \A k \in 1..(n - 1) :
                        /\ log[k + 1].maze = Carve(log[k].maze, log[k].cell, log[k].dir)
                        /\ order(log[k].cell) < order(log[k + 1].cell)
                  /\ \A k \in 1..n :
                        LET c == log[k].cell
                            to == Toward(c, log[k].dir)
                        IN  /\ 1 <= c[1] /\ c[1] <= g.width - 2
                            /\ 1 <= c[2] /\ c[2] <= g.height - 2
                            /\ c \notin Range(g.pattern_42)
                            /\ WallCount(log[k].maze[c]) = 3
                            /\ InGrid(g, to) /\ to \notin Range(g.pattern_42)
                  /\ Cardinality(Passages(gen'[i])) - Cardinality(Passages(g)) <= n]_vars

\* A braided grid with two passages more than a spanning tree has.
C25_Witness ==
    \E i \in Carved :
        /\ carve[i].pc = "done"
        /\ ~gen[i].perfect
        /\ Cardinality(Passages(gen[i])) >= Cardinality(FreeCells(gen[i])) + 1

\* The walls that are absent in a grid, as (cell, wall) pairs.
OpenWalls(mz) ==
    {cw \in (DOMAIN mz) \X {NORTH, EAST, SOUTH, WEST} : ~HasWall(mz[cw[1]].walls, cw[2])}

\* The walls named by the wall-removal events and their mirrored walls.
NamedWalls(evs) ==
    UNION {LET d == CHOOSE e \in Range(DIRECTIONS) : e.wall = evs[k].wall
           IN  {<<evs[k].cell, d.wall>>, <<Toward(evs[k].cell, d), d.op_wall>>}
           : k \in 2..Len(evs)}

\* C26: in a run of dfs_steps or prim_steps braid_dead_ends runs if and only
\* if the perfect flag is false, once, after the last wall-removal event, and
\* emits no event: an advance that emits an event opens one passage and
\* leaves the rest alone, the last advance emits nothing and leaves the walls
\* as they were when perfect and as one braiding pass makes them otherwise;
\* with perfect = True the open walls at completion are exactly the walls
\* named by the events together with their mirrored walls.
C26_BraidOnlyAtEndUnlessPerfect ==
    [][\A i \in Live :
          /\ (carve[i].pc \in {"sentinel", "yielded"} /\ carve'[i].pc = "yielded") =>
                Cardinality(OpenWalls(gen'[i].maze)) = Cardinality(OpenWalls(gen[i].maze)) + 2
          /\ (carve[i].pc \in {"sentinel", "yielded"} /\ carve'[i].pc = "done") =>
                /\ events'[i] = events[i]
                /\ gen[i].perfect =>
                      /\ Walls(gen'[i].maze) = Walls(gen[i].maze)
                      /\ OpenWalls(gen'[i].maze) = NamedWalls(events'[i])
                /\ ~gen[i].perfect =>
                      /\ Walls(gen'[i].maze) = Walls(BraidDeadEnds(gen[i], gen[i].maze).maze)
                      /\ rng' = BraidDeadEnds(gen[i], gen[i].maze).rng]_vars

\* A perfect run has returned with one wall-removal event per non-protected
\* cell but the entry.
C26_Witness ==
    \E i \in Carved :
        /\ carve[i].pc = "done"
        /\ gen[i].perfect
        /\ Len(events[i]) = Cardinality(FreeCells(gen[i]))
        /\ OpenWalls(gen[i].maze) = NamedWalls(events[i])

\* C27: every run of dfs_steps and of prim_steps that keeps being advanced
\* ends after finitely many steps, DFS with an empty stack and Prim with an
\* empty frontier, and at its end every non-protected cell is marked visited.
C27_CarveTerminatesAllVisited ==
    (gen[1].status = "live" /\ carve[1].pc \in {"sentinel", "yielded"})
        ~> (/\ carve[1].pc = "done"
            /\ carve[1].stack = <<>> /\ carve[1].frontier = <<>>
            /\ \A c \in FreeCells(gen[1]) : gen[1].maze[c].vis)

\* A Prim run has ended with every non-protected cell visited, the cells of
\* the pattern not.
C27_Witness ==
    /\ gen[1].status = "live"
    /\ carve[1].pc = "done" /\ carve[1].algo = "prim"
    /\ carve[1].frontier = <<>>
    /\ \A c \in DOMAIN gen[1].maze :
          gen[1].maze[c].vis <=> c \in FreeCells(gen[1])

\* The cells of a grid that are marked visited.
Visited(mz) == {c \in DOMAIN mz : mz[c].vis}

\* The step of i is an advance of prim_steps past the sentinel.
PrimAdvance(i) ==
    /\ gen[i].status = "live"
    /\ carve[i].algo = "prim"
    /\ carve[i].pc \in {"sentinel", "yielded"}
    /\ carve'[i].pc \in {"yielded", "done"}

\* C28: in prim_steps an edge taken from the frontier whose target is already
\* visited changes no wall and no visited flag and emits no event; an event
\* is emitted exactly when the target of the edge taken was unvisited, and
\* then exactly that edge's wall pair is removed and its target becomes
\* visited: every carved edge joins a visited cell to a cell unvisited just
\* before.
C28_PrimDiscardsSilently ==
    [][\A i \in Inst :
          PrimAdvance(i) =>
              LET at == PrimResume(gen[i], carve[i])
                  taken == Range(at.frontier) \ Range(carve'[i].frontier)
                  target(e) == Toward(e.from, e.dir)
              IN  IF carve'[i].pc = "yielded"
                  THEN LET ev == events'[i][Len(events'[i])]
                           edge == [from |-> ev.cell,
                                    dir |-> CHOOSE d \in Range(DIRECTIONS) : d.wall = ev.wall]
                       IN  /\ events'[i] = Append(events[i], ev)
                           /\ edge \in taken
                           /\ ev.cell \in Visited(at.maze)
                           /\ target(edge) \notin Visited(at.maze)
                           /\ \A e \in taken \ {edge} : target(e) \in Visited(at.maze)
                           /\ Walls(gen'[i].maze) = Walls(Carve(at.maze, ev.cell, edge.dir))
                           /\ Visited(gen'[i].maze) = Visited(at.maze) \cup {target(edge)}
                  ELSE /\ events'[i] = events[i]
                       /\ \A e \in taken : target(e) \in Visited(at.maze)
                       /\ Visited(gen'[i].maze) = Visited(at.maze)
                       /\ gen[i].perfect => Walls(gen'[i].maze) = Walls(at.maze)]_vars

\* A Prim run suspended with an edge in its frontier whose target has been
\* visited in the meantime, to be discarded when drawn.
C28_Witness ==
    \E i \in Carved :
        /\ carve[i].algo = "prim" /\ carve[i].pc = "yielded"
        /\ Len(events[i]) >= 4
        /\ \E e \in Range(carve[i].frontier) :
              gen[i].maze[Toward(e.from, e.dir)].vis

\* C29: at every step boundary of prim_steps after the sentinel, every
\* frontier edge has a visited source and an in-bounds non-protected target
\* next to the source in the recorded direction, and for every visited cell v
\* and every unvisited in-bounds non-protected neighbour u of v the frontier
\* holds an edge from v to u.
C29_FrontierInvariant ==
    \A i \in Carved :
        (carve[i].algo = "prim" /\ carve[i].pc = "yielded") =>
            LET g == gen[i]
                frontier == Range(carve[i].frontier)
            IN  /\ \A e \in frontier :
                      /\ e.from \in DOMAIN g.maze /\ g.maze[e.from].vis
                      /\ e.dir \in Range(DIRECTIONS)
                      /\ Toward(e.from, e.dir) \in FreeCells(g)
                /\ \A v \in Visited(g.maze) :
                      \A d \in Range(DIRECTIONS) :
                          (/\ Toward(v, d) \in FreeCells(g)
                           /\ ~g.maze[Toward(v, d)].vis) =>
                              [from |-> v, dir |-> d] \in frontier

\* A Prim run suspended with a frontier that holds two edges into the same
\* unvisited cell.
C29_Witness ==
    \E i \in Carved :
        /\ carve[i].algo = "prim" /\ carve[i].pc = "yielded"
        /\ \E e, f \in Range(carve[i].frontier) :
              /\ e # f
              /\ Toward(e.from, e.dir) = Toward(f.from, f.dir)
              /\ ~gen[i].maze[Toward(e.from, e.dir)].vis

\* C30: at every step boundary of dfs_steps after the sentinel the stack is
\* non-empty, its bottom element is entry, its elements are pairwise distinct
\* visited non-protected cells, and each two consecutive elements are
\* cardinally adjacent cells with no wall between them.
C30_StackIsPathFromEntry ==
    \A i \in Carved :
        (carve[i].algo = "dfs" /\ carve[i].pc = "yielded") =>
            LET g == gen[i]
                stack == carve[i].stack
            IN  /\ stack # <<>>
                /\ stack[1] = g.entry
                /\ \A j, k \in 1..Len(stack) : stack[j] = stack[k] => j = k
                /\ \A k \in 1..Len(stack) :
                      stack[k] \in FreeCells(g) /\ g.maze[stack[k]].vis
                /\ \A k \in 1..(Len(stack) - 1) :
                      \E d \in Range(DIRECTIONS) :
                          stack[k + 1] = Toward(stack[k], d) /\ Passage(g, stack[k], d)

\* A DFS run suspended after it has backtracked: the stack is shorter than
\* the number of cells visited.
C30_Witness ==
    \E i \in Carved :
        /\ carve[i].algo = "dfs" /\ carve[i].pc = "yielded"
        /\ Len(carve[i].stack) >= 3
        /\ Len(carve[i].stack) < Cardinality(Visited(gen[i].maze))

\* The coordinates of the path p before its last one.
Earlier(p) == {p[k] : k \in 1..(Len(p) - 1)}

Walk(g, p, c) ==
    /\ p # <<>>
    /\ p[1] = g.entry
    /\ p[Len(p)] = c
    /\ \A k \in 1..(Len(p) - 1) :
          \E d \in Range(DIRECTIONS) : p[k + 1] = Toward(p[k], d) /\ Passage(g, p[k], d)

C33_TieBreakXThenY ==
    [][\A i \in Carved :
          (search'[i].pc = "yielded" /\ search'[i] # search[i]) =>
              LET cur == search'[i].cur
              IN  \A e \in search'[i].pq :
                      /\ cur.cost <= e.cost
                      /\ cur.cost = e.cost => cur.cell[1] <= e.cell[1]
                      /\ (cur.cost = e.cost /\ cur.cell[1] = e.cell[1]) =>
                            cur.cell[2] < e.cell[2]]_vars

\* An entry has been dequeued ahead of two entries of the same cost: one of
\* a larger x and a smaller y, one of the same x and a larger y.
C33_Witness ==
    \E i \in Carved :
        /\ search[i].pc = "yielded"
        /\ \E e \in search[i].pq :
              /\ e.cost = search[i].cur.cost
              /\ e.cell[1] > search[i].cur.cell[1]
              /\ e.cell[2] < search[i].cur.cell[2]
        /\ \E e \in search[i].pq :
              /\ e.cost = search[i].cur.cost
              /\ e.cell[1] = search[i].cur.cell[1]
              /\ e.cell[2] > search[i].cur.cell[2]

\* The cells that have an entry in the queue pq.
Queued(pq) == {e.cell : e \in pq}

\* C34: in one run of find_shortest_path_steps every cell is enqueued at most
\* once and dequeued at most once: a push is always for a cell with no
\* recorded cost, a recorded cost never changes, every entry carries the cost
\* recorded for its cell (the stale-entry check discards nothing), and the
\* number of step events, which is the number of cells enqueued and no longer
\* queued, is at most the number of non-protected cells.
C34_EnqueuedOnce ==
    [][\A i \in Carved :
          (search'[i].pc = "yielded" /\ search'[i] # search[i]) =>
              LET fr == search'[i]
                  old == search[i]
              IN  /\ Cardinality(Queued(fr.pq)) = Cardinality(fr.pq)
                  /\ fr.cur.cell \notin Queued(fr.pq)
                  /\ \A e \in fr.pq \cup {fr.cur} :
                        Known(fr.distance, e.cell) /\ e.cost = fr.distance[e.cell]
                  /\ ~Stale(fr.cur, fr.distance)
                  /\ DOMAIN fr.distance \subseteq FreeCells(gen'[i])
                  /\ Cardinality(DOMAIN fr.distance) - Cardinality(fr.pq)
                        <= Cardinality(FreeCells(gen'[i]))
                  /\ old.pc = "yielded" =>
                        /\ \A c \in DOMAIN old.distance :
                              Known(fr.distance, c) /\ fr.distance[c] = old.distance[c]
                        /\ \A e \in (fr.pq \cup {fr.cur}) \ old.pq :
                              ~Known(old.distance, e.cell)
                        /\ Cardinality(DOMAIN fr.distance) - Cardinality(fr.pq)
                              = Cardinality(DOMAIN old.distance) - Cardinality(old.pq) + 1]_vars

\* On a braided grid a dequeued cell has an open neighbour already recorded
\* at the cost a push from this cell would give it: a second route of equal
\* cost that must not enqueue the neighbour again.
C34_Witness ==
    \E i \in Carved :
        /\ search[i].pc = "yielded"
        /\ search[i].cur.cell # gen[i].maze_exit
        /\ \E d \in Range(DIRECTIONS) :
              /\ Passage(gen[i], search[i].cur.cell, d)
              /\ Known(search[i].distance, Toward(search[i].cur.cell, d))
              /\ search[i].distance[Toward(search[i].cur.cell, d)] = search[i].cur.cost + 1

\* C35: no carving or braiding step removes a wall on the outer boundary of
\* the grid: after every step every cell with y = 0 has its north wall, every
\* cell with y = height - 1 its south wall, every cell with x = 0 its west
\* wall and every cell with x = width - 1 its east wall, the entry and exit
\* cells included.
C35_OuterWallsStay ==
    [][\A i \in Inst :
          gen'[i].maze # <<>> =>
              LET g == gen'[i]
              IN  \A c \in Coords(g.width, g.height) :
                      /\ c[2] = 0 => HasWall(g.maze[c].walls, NORTH)
                      /\ c[2] = g.height - 1 => HasWall(g.maze[c].walls, SOUTH)
                      /\ c[1] = 0 => HasWall(g.maze[c].walls, WEST)
                      /\ c[1] = g.width - 1 => HasWall(g.maze[c].walls, EAST)]_vars

\* A braided grid, carved to the end, whose entry is a corner cell open on
\* both inner sides and whose exit lies on the boundary with one wall left.
C35_Witness ==
    \E i \in Carved :
        /\ carve[i].pc = "done"
        /\ ~gen[i].perfect
        /\ gen[i].entry = <<0, 0>>
        /\ WallCount(gen[i].maze[gen[i].entry]) = 2
        /\ gen[i].maze_exit = <<8, 8>>

\* The events and the grid of a run of dfs_steps that nothing interrupts,
\* from the frame fr with the random state r and the events evs so far, up to
\* its n-th event or its end.
RECURSIVE AloneDfs(_, _, _, _, _)
AloneDfs(g, fr, r, evs, n) ==
    IF Len(evs) >= n THEN <<evs, g.maze>>
    ELSE LET at == DfsResume(g, fr)
             res == DfsLoop(g, at.maze, at.stack, r)
         IN  IF res.yielded
             THEN AloneDfs([g EXCEPT !.maze = res.maze],
                           [fr EXCEPT !.pc = "yielded", !.stack = res.stack,
                                      !.pending = res.pending],
                           res.rng, Append(evs, res.event), n)
             ELSE <<evs, Finish(g, res.maze, res.rng).maze>>

\* The same for prim_steps.
RECURSIVE AlonePrim(_, _, _, _, _)
AlonePrim(g, fr, r, evs, n) ==
    IF Len(evs) >= n THEN <<evs, g.maze>>
    ELSE LET at == PrimResume(g, fr)
             res == PrimLoop(g, at.maze, at.frontier, r)
         IN  IF res.yielded
             THEN AlonePrim([g EXCEPT !.maze = res.maze],
                            [fr EXCEPT !.pc = "yielded", !.frontier = res.frontier],
                            res.rng, Append(evs, res.event), n)
             ELSE <<evs, Finish(g, res.maze, res.rng).maze>>

\* The first n events (all of them when there are fewer) of instance i's
\* algorithm run alone with i's parameters, and the grid they leave.
Alone(i, n) ==
    LET g == [gen[i] EXCEPT !.maze = GenerateGrid(gen[i])]
        fr == [NoCarve EXCEPT !.pc = "sentinel", !.algo = carve[i].algo]
        evs == <<[cell |-> g.entry, wall |-> NoDirection]>>
    IN  IF carve[i].algo = "dfs"
        THEN AloneDfs(g, fr, SeedRng(g.seed), evs, n)
        ELSE AlonePrim(g, fr, SeedRng(g.seed), evs, n)

\* C36: when the step sequences of two instances are advanced in an
\* interleaved order, each instance emits the event sequence it emits when
\* run alone with the same parameters (at every moment the events emitted so
\* far are the first events of that run) and ends with the same wall states.
C36_InterleavingKeepsRuns ==
    \A i \in Carved :
        carve[i].pc # "idle" =>
            /\ events[i] = Alone(i, Len(events[i]))[1]
            /\ carve[i].pc = "done" =>
                  LET alone == Alone(i, Len(events[i]) + 1)
                  IN  /\ events[i] = alone[1]
                      /\ Walls(gen[i].maze) = Walls(alone[2])

\* C37: write_output(gen) leaves the entry, the exit, the seed, the perfect
\* flag and the stored path of the generator as they are and replaces its
\* grid by an empty one; a find_shortest_path call made after an export and
\* before a new carve emits no step event (its first advance returns) and
\* leaves the stored path and the rest of the instance unchanged.
C37_ExportEmptiesGridOnly ==
    [][\A i \in Live :
          /\ (files' # files \/ (gen[i].maze # <<>> /\ gen'[i].maze = <<>>)) =>
                /\ gen'[i] = [gen[i] EXCEPT !.maze = <<>>]
                /\ gen[i].output_file \in DOMAIN files'
                /\ <<carve'[i], search'[i], events'[i]>> = <<carve[i], search[i], events[i]>>
          /\ (gen[i].maze = <<>> /\ gen[i].output_file \in DOMAIN files
                /\ search'[i] # search[i]) =>
                /\ search'[i].pc = "done"
                /\ gen'[i] = gen[i]]_vars

\* A carved grid has been exported before any search, and a search called
\* after the export has returned: the grid is empty, the file holds the nine
\* rows of the grid, and no path is stored.
C37_Witness ==
    \E i \in Live :
        /\ carve[i].pc = "done"
        /\ gen[i].maze = <<>>
        /\ search[i].pc = "done"
        /\ gen[i].path = <<>>
        /\ gen[i].output_file \in DOMAIN files
        /\ Len(SplitLines(files[gen[i].output_file])) = gen[i].height + 5
        /\ Len(SplitLines(files[gen[i].output_file])[1]) = gen[i].width

\* The sequence a is the beginning of the sequence b.
IsPrefix(a, b) == Len(a) <= Len(b) /\ SubSeq(b, 1, Len(a)) = a

\* C38: in the visualizer, under any sequence of button clicks and animation
\* ticks, while a carve animation is in progress nothing but its own ticks
\* changes the grid or the active step sequence (a GENERATE click restarts
\* nothing, a FIND PATH click starts nothing); a path search is created only
\* when the carve animation is done; and every step of a path search is
\* executed on a grid whose carve has ended with every non-protected cell
\* visited.
C38_NoSearchOnPartialGrid ==
    [][\A i \in Live :
          /\ carve[i].pc \in {"sentinel", "yielded"} =>
                /\ search'[i] = search[i]
                /\ search[i].pc = "idle"
                /\ carve'[i].algo = carve[i].algo
                /\ carve'[i].pc \in {"yielded", "done"}
                /\ IsPrefix(events[i], events'[i])
                /\ gen'[i].seed = gen[i].seed
                /\ gen'[i].perfect = gen[i].perfect
          /\ (search'[i].pc = "new" /\ search[i].pc # "new") =>
                /\ carve[i].pc = "done"
                /\ <<gen'[i], carve'[i]>> = <<gen[i], carve[i]>>
          /\ (search[i].pc \in {"new", "yielded"} /\ search'[i] # search[i]
                /\ search'[i].pc \in {"yielded", "done"}) =>
                /\ carve[i].pc = "done"
                /\ Visited(gen[i].maze) = FreeCells(gen[i])]_vars

\* A carve animation is in progress on an instance that holds the path of an
\* earlier grid: the state in which GENERATE and FIND PATH are clicked in
\* vain.
C38_Witness ==
    \E i \in Carved :
        /\ carve[i].pc = "yielded"
        /\ Len(events[i]) > 3
        /\ search[i].pc = "idle"
        /\ gen[i].path # <<>>
        /\ ~PathValid(gen[i], gen[i].path)

====
